---- MODULE Spec2Model ----
(***************************************************************************)
(* Model of the Worker-to-Investor calculator                              *)
(* (src/workerToInvestorChallenge/calculator.js).                          *)
(*                                                                         *)
(* Money.  Every money amount is an integer count of 1/Scale dollar, with  *)
(* Scale = 200.  The inputs are drawn in half dollars, which a JavaScript  *)
(* double holds exactly; every rate of APP_CONFIG is a whole number of     *)
(* percent (0.5 = 50%, 0.05 = 5%), so every product the code forms is a    *)
(* whole number of 1/200 dollar and the arithmetic below is exact.         *)
(* Math.round is round-half-up (towards +Infinity).                        *)
(*                                                                         *)
(* The compounding engines (projection, endurance, crossover) multiply by  *)
(* 1.07 year after year; they compute on exact decimals (see below).       *)
(*                                                                         *)
(* JavaScript values that are not numbers ('' and undefined) are the       *)
(* sentinels EmptyString and Undefined, which lie outside the money range. *)
(* A call that throws is the result Thrown; a call that returns v is       *)
(* Returned(v).                                                            *)
(***************************************************************************)
EXTENDS Integers, Sequences, FiniteSets

VARIABLES
    pc,               \* position of the running call: which operation is next, or "done"
    income,           \* argument of calculateFederalTax
    filingStatus,     \* argument of calculateFederalTax
    federalTax,       \* what calculateFederalTax(income, filingStatus) did
    inputs,           \* the inputs object handed to validateCalculatorForm / calculate
    calculations,     \* what FinancialCalculator.calculate(inputs) did
    form,             \* the form fields handleCalculatorSubmit reads
    errors,           \* the errors object validateCalculatorForm returned (its keys)
    projectionArgs,   \* arguments of calculateProjection / calculateFifteenYearValue
    projectionSeries, \* what calculateProjection returned
    fifteenYearValue, \* what calculateFifteenYearValue returned
    enduranceArgs,    \* arguments of the outermost calculateAssetEndurance call
    stack,            \* the activations of calculateAssetEndurance, outermost first
    endurance,        \* what calculateAssetEndurance returned
    enduranceMetrics, \* what calculateAssetEnduranceMetrics(calculations) returned
    crossoverArgs,    \* arguments of calculateCrossoverPoint
    crossover,        \* what calculateCrossoverPoint returned
    crossoverPoints,  \* what calculateAllCrossoverPoints(calculations) returned
    appState,         \* the ApplicationState instance
    slider,           \* max, step and value of the savings slider
    chartInstances,   \* the Chart instances created and not destroyed
    lastChartId,      \* the id of the Chart created last
    shown,            \* whether showAllSections has shown the result sections
    innerWidth,       \* window.innerWidth
    resizeTimeout,    \* whether the timer of handleWindowResize is pending
    formErrors,       \* the fields displayErrors shows an error message for
    pipeline          \* the calls of the engine pipeline made so far

calcVars == <<income, filingStatus, federalTax, inputs, calculations, form, errors>>

projectionVars == <<projectionArgs, projectionSeries, fifteenYearValue>>

enduranceVars == <<enduranceArgs, stack, endurance, enduranceMetrics>>

crossoverVars == <<crossoverArgs, crossover, crossoverPoints>>

engineVars == <<projectionVars, enduranceVars, crossoverVars>>

pageVars == <<appState, slider, chartInstances, lastChartId, shown, formErrors>>

sessionVars == <<pageVars, innerWidth, resizeTimeout, pipeline>>

vars == <<pc, calcVars, engineVars, sessionVars>>

----------------------------------------------------------------------------
(* Fixed-point money *)

\* Units per dollar: 2 (half-dollar inputs) times 100 (whole-percent rates).
Scale == 2 * 100

Dollars(d) == d * Scale

\* An amount of h half dollars.
HalfDollars(h) == h * (Scale \div 2)

\* x * (pct / 100), split so that no intermediate product leaves 32 bits.
\* The split is exact: x = 100 q + r gives x * pct / 100 = q * pct + r * pct / 100.
Mul(x, pct) == (x \div 100) * pct + ((x % 100) * pct) \div 100

\* Math.round(x): the nearest whole dollar, a tie going up.
MathRound(x) == ((x + Scale \div 2) \div Scale) * Scale

MathMin(a, b) == IF a <= b THEN a ELSE b

MathMax(a, b) == IF a >= b THEN a ELSE b

IsWhole(x) == x % Scale = 0

----------------------------------------------------------------------------
(* JavaScript values *)

\* Number.POSITIVE_INFINITY, above every amount of the model.
Infinity == 2147483647

\* The empty string '' and undefined: outside the range of money amounts.
EmptyString == 0 - Infinity

Undefined == 1 - Infinity

IsNumber(v) == v # EmptyString /\ v # Undefined

\* ToNumber, as the relational operators apply it: '' is 0.
\* (undefined is NaN, and every comparison with NaN is false: see Less.)
ToNumber(v) == IF v = EmptyString THEN 0 ELSE v

\* a < b on JavaScript values.
Less(a, b) == a # Undefined /\ b # Undefined /\ ToNumber(a) < ToNumber(b)

\* !v for a value that is '' / undefined / a number.
Falsy(v) == v = EmptyString \/ v = Undefined \/ v = 0

Returned(v) == [threw |-> FALSE, value |-> v]

Thrown == [threw |-> TRUE, value |-> 0]

----------------------------------------------------------------------------
(* 1. APP_CONFIG *)

Bracket(t, r) == [threshold |-> t, rate |-> r]

TAX_BRACKETS ==
    [ single |->
        << Bracket(Dollars(11925), 10), Bracket(Dollars(48475), 12),
           Bracket(Dollars(103350), 22), Bracket(Dollars(197300), 24),
           Bracket(Dollars(250525), 32), Bracket(Dollars(626350), 35),
           Bracket(Infinity, 37) >>,
      marriedJointly |->
        << Bracket(Dollars(23850), 10), Bracket(Dollars(96950), 12),
           Bracket(Dollars(206700), 22), Bracket(Dollars(394600), 24),
           Bracket(Dollars(501050), 32), Bracket(Dollars(751600), 35),
           Bracket(Infinity, 37) >>,
      marriedSeparately |->
        << Bracket(Dollars(11925), 10), Bracket(Dollars(48475), 12),
           Bracket(Dollars(103350), 22), Bracket(Dollars(197300), 24),
           Bracket(Dollars(250525), 32), Bracket(Dollars(375800), 35),
           Bracket(Infinity, 37) >>,
      headOfHousehold |->
        << Bracket(Dollars(17000), 10), Bracket(Dollars(64850), 12),
           Bracket(Dollars(103350), 22), Bracket(Dollars(197300), 24),
           Bracket(Dollars(250500), 32), Bracket(Dollars(626350), 35),
           Bracket(Infinity, 37) >> ]

\* The own keys of APP_CONFIG.TAX_BRACKETS.
FilingStatusKeys == DOMAIN TAX_BRACKETS

\* Rates of APP_CONFIG.FINANCIAL, in percent.
WEALTH_SPENDING_RATE == 5

AFTER_TAX_SPENDING_RATE == 50

DEFAULT_SAVINGS_RATE == 10

----------------------------------------------------------------------------
(* 4. TaxCalculator *)

\* Names every object inherits from Object.prototype: TAX_BRACKETS[name] is
\* then an inherited member (a function, or Object.prototype itself for
\* __proto__): truthy, and not iterable.
ObjectPrototypeKeys ==
    { "constructor", "toString", "toLocaleString", "valueOf", "hasOwnProperty",
      "isPrototypeOf", "propertyIsEnumerable", "__proto__" }

\* APP_CONFIG.TAX_BRACKETS[filingStatus]: what the property read yields.
BracketLookup(status) ==
    IF status \in FilingStatusKeys THEN "array"
    ELSE IF status \in ObjectPrototypeKeys THEN "inherited"
    ELSE "undefined"

\* The loop taxing each bracket it enters at its full width: the cap
\* Math.min(income, bracket.threshold) left out.
RECURSIVE BracketLoopNoCap(_, _, _, _, _)
BracketLoopNoCap(brackets, i, inc, totalTax, previousThreshold) ==
    IF i > Len(brackets) THEN totalTax
    ELSE IF inc <= previousThreshold THEN totalTax
    ELSE BracketLoopNoCap(brackets, i + 1, inc,
                          totalTax + Mul(brackets[i].threshold - previousThreshold,
                                         brackets[i].rate),
                          brackets[i].threshold)

\* The for...of loop over the brackets, from bracket i on.
RECURSIVE BracketLoop(_, _, _, _, _)
BracketLoop(brackets, i, inc, totalTax, previousThreshold) ==
    IF i > Len(brackets) THEN totalTax
    ELSE IF inc <= previousThreshold THEN totalTax
    ELSE LET bracket == brackets[i]
             taxableInThisBracket == MathMin(inc, bracket.threshold) - previousThreshold
         IN  BracketLoop(brackets, i + 1, inc,
                         totalTax + Mul(taxableInThisBracket, bracket.rate),
                         bracket.threshold)

calculateFederalTax(inc, status) ==
    IF inc <= 0 \/ BracketLookup(status) = "undefined" THEN Returned(0)
    ELSE IF BracketLookup(status) = "inherited" THEN Thrown
    ELSE Returned(MathRound(BracketLoop(TAX_BRACKETS[status], 1, inc, 0, 0)))

----------------------------------------------------------------------------
(* 3. UtilityFunctions, 5. FormValidator *)

\* The text of a money field that holds no number at all ("abc", "$").
\* A field's text is otherwise EmptyString, or the number its text spells.
GarbageText == 2 - Infinity

\* parseCurrency(value): '' for an empty text and for a text parseFloat makes
\* nothing of (NaN), else the number.
parseCurrency(value) ==
    IF value = EmptyString \/ value = GarbageText THEN EmptyString ELSE value

\* The inputs object handleCalculatorSubmit builds from the form's fields.
FormInputs(f) ==
    [ preTaxIncome   |-> parseCurrency(f.preTaxIncome),
      wealthAccount  |-> IF f.wealthAccount = EmptyString THEN EmptyString
                         ELSE parseCurrency(f.wealthAccount),
      stateIncomeTax |-> IF Falsy(parseCurrency(f.stateIncomeTax)) THEN 0
                         ELSE parseCurrency(f.stateIncomeTax),
      filingStatus   |-> f.filingStatus ]

\* validateCalculatorForm without its cross-field validation.
validateCalculatorFormNoCrossField(in) ==
    (IF Falsy(in.preTaxIncome) \/ in.preTaxIncome <= 0
        THEN {"preTaxIncome"} ELSE {})
    \cup (IF in.wealthAccount = Undefined \/ in.wealthAccount = EmptyString
             THEN {"wealthAccount"}
          ELSE IF in.wealthAccount < 0 THEN {"wealthAccount"} ELSE {})
    \cup (IF Less(in.stateIncomeTax, 0) THEN {"stateIncomeTax"} ELSE {})
    \cup (IF in.filingStatus = "" THEN {"filingStatus"} ELSE {})

\* validateCalculatorForm(inputs): the keys of the errors object it returns.
\* (null and undefined are both Undefined here.  preTaxIncome <= 0 is read
\* only when preTaxIncome is truthy, hence a number.)
validateCalculatorForm(in) ==
    (IF Falsy(in.preTaxIncome) \/ in.preTaxIncome <= 0
        THEN {"preTaxIncome"} ELSE {})
    \cup (IF in.wealthAccount = Undefined \/ in.wealthAccount = EmptyString
             THEN {"wealthAccount"}
          ELSE IF in.wealthAccount < 0 THEN {"wealthAccount"} ELSE {})
    \cup (IF Less(in.stateIncomeTax, 0) THEN {"stateIncomeTax"} ELSE {})
    \cup (IF in.filingStatus = "" THEN {"filingStatus"} ELSE {})
    \cup (IF Less(in.preTaxIncome, in.stateIncomeTax) THEN {"stateIncomeTax"} ELSE {})

\* displayErrors(errors, 'calculatorForm'), the form being in the document:
\* true exactly when the errors object has no key.
displayErrors(errs) == errs = {}

----------------------------------------------------------------------------
(* 7. FinancialCalculator.calculate *)

Targets(spending, saving) == [targetSpending |-> spending, targetSaving |-> saving]

\* The initial targets with the wealth account's share of the spending left out.
FirstPassWithoutWealth(afterTaxIncome, wealthAccount) ==
    LET targetSpending == Mul(afterTaxIncome, AFTER_TAX_SPENDING_RATE)
    IN  Targets(targetSpending, MathMax(0, afterTaxIncome - targetSpending))

\* Initial investor targets (before the two corrections).
FirstPass(afterTaxIncome, wealthAccount) ==
    LET targetSpending == Mul(afterTaxIncome, AFTER_TAX_SPENDING_RATE)
                          + Mul(wealthAccount, WEALTH_SPENDING_RATE)
    IN  Targets(targetSpending, MathMax(0, afterTaxIncome - targetSpending))

\* The saving floor raising the saving target and leaving the spending
\* target as it was.
SavingFloorSavingOnly(t, afterTaxIncome, estimatedSaving) ==
    IF t.targetSaving < estimatedSaving
    THEN Targets(t.targetSpending, estimatedSaving)
    ELSE t

\* if (targetSaving < estimatedSaving) { ... }
SavingFloor(t, afterTaxIncome, estimatedSaving) ==
    IF t.targetSaving < estimatedSaving
    THEN Targets(afterTaxIncome - estimatedSaving, estimatedSaving)
    ELSE t

\* The spending ceiling assigning to the wrong variables: the worker's
\* spending becomes the saving target.
SpendingCeilingSwapped(t, afterTaxIncome, estimatedSpending) ==
    IF t.targetSpending > estimatedSpending
    THEN Targets(afterTaxIncome - estimatedSpending, estimatedSpending)
    ELSE t

\* if (targetSpending > estimatedSpending) { ... }
SpendingCeiling(t, afterTaxIncome, estimatedSpending) ==
    IF t.targetSpending > estimatedSpending
    THEN Targets(estimatedSpending, afterTaxIncome - estimatedSpending)
    ELSE t

\* The after-tax income clamped at 0.
AfterTaxIncomeClamped(preTaxIncome, totalTax) == MathMax(0, preTaxIncome - totalTax)

\* const afterTaxIncome = inputs.preTaxIncome - totalTax;
AfterTaxIncome(preTaxIncome, totalTax) == preTaxIncome - totalTax

\* The wealth account used as given, blank or not.
WealthAccountAsGiven(w) == w

\* inputs.wealthAccount === '' ? 0 : inputs.wealthAccount
WealthAccountOrZero(w) == IF w = EmptyString THEN 0 ELSE w

\* The first-pass targets left uncorrected.
NoCorrections(first, afterTaxIncome, estimatedSaving, estimatedSpending) == first

\* The two corrections, in the order of the code: the saving floor, then the
\* spending ceiling.
Corrections(first, afterTaxIncome, estimatedSaving, estimatedSpending) ==
    SpendingCeiling(SavingFloor(first, afterTaxIncome, estimatedSaving),
                    afterTaxIncome, estimatedSpending)

\* The locals of calculate with the worker's spending taken from the pre-tax
\* income.
CalculateLocalsSpendingBeforeTax(in, fedTax) ==
    LET totalTax          == fedTax + in.stateIncomeTax
        afterTaxIncome    == AfterTaxIncome(in.preTaxIncome, totalTax)
        wealthAccount     == WealthAccountOrZero(in.wealthAccount)
        estimatedSaving   == Mul(in.preTaxIncome, DEFAULT_SAVINGS_RATE)
        estimatedSpending == in.preTaxIncome - estimatedSaving
        first             == FirstPass(afterTaxIncome, wealthAccount)
    IN  [ federalTax        |-> fedTax,
          totalTax          |-> totalTax,
          afterTaxIncome    |-> afterTaxIncome,
          wealthAccount     |-> wealthAccount,
          estimatedSaving   |-> estimatedSaving,
          estimatedSpending |-> estimatedSpending,
          first             |-> first,
          targets           |-> Corrections(first, afterTaxIncome,
                                            estimatedSaving, estimatedSpending) ]

\* The locals of calculate(inputs), given the federal tax it computed.
CalculateLocals(in, fedTax) ==
    LET totalTax          == fedTax + in.stateIncomeTax
        afterTaxIncome    == AfterTaxIncome(in.preTaxIncome, totalTax)
        wealthAccount     == WealthAccountOrZero(in.wealthAccount)
        estimatedSaving   == Mul(in.preTaxIncome, DEFAULT_SAVINGS_RATE)
        estimatedSpending == afterTaxIncome - estimatedSaving
        first             == FirstPass(afterTaxIncome, wealthAccount)
    IN  [ federalTax        |-> fedTax,
          totalTax          |-> totalTax,
          afterTaxIncome    |-> afterTaxIncome,
          wealthAccount     |-> wealthAccount,
          estimatedSaving   |-> estimatedSaving,
          estimatedSpending |-> estimatedSpending,
          first             |-> first,
          targets           |-> Corrections(first, afterTaxIncome,
                                            estimatedSaving, estimatedSpending) ]

\* The record with the saving target left unrounded.
CalculationRecordUnroundedSaving(l) ==
    [ federalTax        |-> l.federalTax,
      totalTax          |-> l.totalTax,
      afterTaxIncome    |-> l.afterTaxIncome,
      targetSpending    |-> MathRound(l.targets.targetSpending),
      targetSaving      |-> l.targets.targetSaving,
      estimatedSaving   |-> MathRound(l.estimatedSaving),
      estimatedSpending |-> MathRound(l.estimatedSpending),
      wealthAccount     |-> l.wealthAccount ]

\* The record calculate returns, from its locals.
CalculationRecord(l) ==
    [ federalTax        |-> l.federalTax,
      totalTax          |-> l.totalTax,
      afterTaxIncome    |-> l.afterTaxIncome,
      targetSpending    |-> MathRound(l.targets.targetSpending),
      targetSaving      |-> MathRound(l.targets.targetSaving),
      estimatedSaving   |-> MathRound(l.estimatedSaving),
      estimatedSpending |-> MathRound(l.estimatedSpending),
      wealthAccount     |-> l.wealthAccount ]

\* appState.calculations as the ApplicationState constructor sets it.
InitialCalculations ==
    [ federalTax |-> 0, totalTax |-> 0, afterTaxIncome |-> 0, targetSpending |-> 0,
      targetSaving |-> 0, estimatedSaving |-> 0, estimatedSpending |-> 0,
      wealthAccount |-> 0 ]

\* FinancialCalculator.calculate(inputs): the TypeError of calculateFederalTax
\* passes through it.
calculate(in) ==
    LET fed == calculateFederalTax(in.preTaxIncome, in.filingStatus)
    IN  IF fed.threw THEN [threw |-> TRUE, value |-> InitialCalculations]
        ELSE Returned(CalculationRecord(CalculateLocals(in, fed.value)))

----------------------------------------------------------------------------
(* Exact decimals *)

\* Compounding by 1.07 leaves two more decimals every year, for fifty years
\* in calculateCrossoverPoint: more than Scale holds.  The compounding
\* engines compute on exact decimals: a sign and a magnitude of Limbs digits
\* in base Base, least significant first, the lowest FractionLimbs of them
\* behind the point.  (On the inputs drawn below a double rounds and
\* compares as the exact decimal does.)
Base == 1000 * 1000

FractionLimbs == 18

IntegerLimbs == 2

Limbs == FractionLimbs + IntegerLimbs

MagZero == SubSeq([i \in 1..Limbs |-> 0], 1, Limbs)

\* The element of a one-element set.  An operand that an operation reads
\* digit by digit is bound once, as x in { ... x ... : x \in {operand} },
\* so that it is computed once wherever the operation is evaluated.
Only(s) == CHOOSE r \in s : TRUE

RECURSIVE MagAddFrom(_, _, _, _)
MagAddFrom(a, b, i, carry) ==
    IF i > Limbs THEN <<>>
    ELSE LET t == a[i] + b[i] + carry
         IN  <<t % Base>> \o MagAddFrom(a, b, i + 1, t \div Base)

\* a + b
MagAdd(a, b) == MagAddFrom(a, b, 1, 0)

RECURSIVE MagSubFrom(_, _, _, _)
MagSubFrom(a, b, i, borrow) ==
    IF i > Limbs THEN <<>>
    ELSE LET t == a[i] - b[i] - borrow
         IN  <<t % Base>> \o MagSubFrom(a, b, i + 1, IF t < 0 THEN 1 ELSE 0)

\* a - b, for a >= b
MagSub(a, b) == MagSubFrom(a, b, 1, 0)

RECURSIVE MagLessFrom(_, _, _)
MagLessFrom(a, b, i) ==
    IF i = 0 THEN FALSE
    ELSE IF a[i] # b[i] THEN a[i] < b[i]
    ELSE MagLessFrom(a, b, i - 1)

\* a < b
MagLess(a, b) == MagLessFrom(a, b, Limbs)

RECURSIVE MagTimesFrom(_, _, _, _)
MagTimesFrom(a, m, i, carry) ==
    IF i > Limbs THEN <<>>
    ELSE LET t == a[i] * m + carry
         IN  <<t % Base>> \o MagTimesFrom(a, m, i + 1, t \div Base)

\* a * m, for a small whole m
MagTimes(a, m) == MagTimesFrom(a, m, 1, 0)

\* a / 100: Base is a multiple of 100, so every digit of the quotient comes
\* from two neighbouring digits of a.
MagHundredth(a) ==
    Only({ SubSeq([i \in 1..Limbs |->
                      x[i] \div 100
                      + (IF i < Limbs THEN (x[i + 1] % 100) * (Base \div 100) ELSE 0)],
                  1, Limbs) : x \in {a} })

\* The decimal of sign neg and magnitude mag (zero has no sign).
Decimal(neg, mag) == Only({ [neg |-> neg /\ m # MagZero, mag |-> m] : m \in {mag} })

\* The decimal of a money amount x (a count of 1/Scale dollar).
DecimalOf(x) ==
    LET m == IF x < 0 THEN 0 - x ELSE x
        d == m \div Scale
    IN  Decimal(x < 0,
                SubSeq([i \in 1..Limbs |->
                           IF i = FractionLimbs THEN (m % Scale) * (Base \div Scale)
                           ELSE IF i = FractionLimbs + 1 THEN d % Base
                           ELSE IF i = FractionLimbs + 2 THEN d \div Base
                           ELSE 0],
                       1, Limbs))

\* a + b
DecimalAdd(a, b) ==
    Only({ IF x.neg = y.neg THEN Decimal(x.neg, MagAdd(x.mag, y.mag))
           ELSE IF MagLess(x.mag, y.mag) THEN Decimal(y.neg, MagSub(y.mag, x.mag))
           ELSE Decimal(x.neg, MagSub(x.mag, y.mag)) : x \in {a}, y \in {b} })

\* a - b
DecimalSub(a, b) == DecimalAdd(a, Decimal(~b.neg, b.mag))

\* a * rate, the rate in whole percent
DecimalTimes(a, pct) ==
    Only({ Decimal(x.neg, MagHundredth(MagTimes(x.mag, pct))) : x \in {a} })

\* a < b
DecimalLess(a, b) ==
    \E x \in {a}, y \in {b} :
        IF x.neg # y.neg THEN x.neg
        ELSE IF x.neg THEN MagLess(y.mag, x.mag)
        ELSE MagLess(x.mag, y.mag)

\* a <= b
DecimalLeq(a, b) == ~DecimalLess(b, a)

\* The whole dollars of a magnitude, and whether what is left is half a
\* dollar or more, or more than half a dollar.
MagWhole(m) == m[FractionLimbs + 1] + m[FractionLimbs + 2] * Base

MagHalfOrMore(m) == m[FractionLimbs] >= Base \div 2

MagMoreThanHalf(m) ==
    \/ m[FractionLimbs] > Base \div 2
    \/ /\ m[FractionLimbs] = Base \div 2
       /\ \E i \in 1..(FractionLimbs - 1) : m[i] # 0

\* Math.round(a) as a money amount: the nearest whole dollar, a half going up.
DecimalRound(a) ==
    Only({ IF x.neg
           THEN 0 - Dollars(MagWhole(x.mag) + (IF MagMoreThanHalf(x.mag) THEN 1 ELSE 0))
           ELSE Dollars(MagWhole(x.mag) + (IF MagHalfOrMore(x.mag) THEN 1 ELSE 0))
           : x \in {a} })

----------------------------------------------------------------------------
(* 7. FinancialCalculator: endurance, projection, crossover *)

INVESTMENT_RETURN_RATE == 7

WITHDRAWAL_RATE == 5

PROJECTION_YEARS == 15

\* The indefinite sentinel of calculateAssetEndurance and the never sentinel
\* of calculateCrossoverPoint.
Indefinite == 0 - 1

Never == 0 - 1

\* x * (1 + INVESTMENT_RETURN_RATE)
Grow(x) == DecimalTimes(x, 100 + INVESTMENT_RETURN_RATE)

\* remainingAssets with the spending left out.
RemainingAssetsUnspent(assetBase, annualSpending) == Grow(assetBase)

\* remainingAssets of calculateAssetEndurance.
RemainingAssets(assetBase, annualSpending) ==
    Grow(DecimalSub(assetBase, annualSpending))

\* The depletion test made on what is left after the year's growth.
DepletedAfterGrowth(assetBase, annualSpending) ==
    DecimalLeq(DecimalSub(Grow(assetBase), annualSpending), DecimalOf(0))

\* assetBase - annualSpending <= 0
Depleted(assetBase, annualSpending) ==
    DecimalLeq(DecimalSub(assetBase, annualSpending), DecimalOf(0))

\* annualSpending <= assetBase * INVESTMENT_RETURN_RATE
Sustainable(assetBase, annualSpending) ==
    DecimalLeq(annualSpending, DecimalTimes(assetBase, INVESTMENT_RETURN_RATE))

\* One activation of calculateAssetEndurance counting the completed years
\* only: a depletion returns yearsElapsed.
EnduranceBodyCompletedYears(annualSpending, assetBase, yearsElapsed) ==
    IF Sustainable(assetBase, annualSpending)
    THEN [returns |-> TRUE, value |-> Indefinite,
          assetBase |-> assetBase, yearsElapsed |-> yearsElapsed]
    ELSE IF Depleted(assetBase, annualSpending)
    THEN [returns |-> TRUE, value |-> yearsElapsed,
          assetBase |-> assetBase, yearsElapsed |-> yearsElapsed]
    ELSE [returns |-> FALSE, value |-> 0,
          assetBase |-> RemainingAssets(assetBase, annualSpending),
          yearsElapsed |-> yearsElapsed + 1]

\* One activation of calculateAssetEndurance(annualSpending, assetBase,
\* yearsElapsed): it returns a value, or calls itself with the remaining
\* assets and one more year.
EnduranceBody(annualSpending, assetBase, yearsElapsed) ==
    IF Sustainable(assetBase, annualSpending)
    THEN [returns |-> TRUE, value |-> Indefinite,
          assetBase |-> assetBase, yearsElapsed |-> yearsElapsed]
    ELSE IF Depleted(assetBase, annualSpending)
    THEN [returns |-> TRUE, value |-> yearsElapsed + 1,
          assetBase |-> assetBase, yearsElapsed |-> yearsElapsed]
    ELSE [returns |-> FALSE, value |-> 0,
          assetBase |-> RemainingAssets(assetBase, annualSpending),
          yearsElapsed |-> yearsElapsed + 1]

\* Balance after a year of calculateProjection with the growth applied
\* before the contribution.
ProjectionYearGrowFirst(balance, annualSaving) ==
    DecimalAdd(Grow(balance), annualSaving)

\* Balance after a year of calculateProjection with the saving taken out.
ProjectionYearWithdraw(balance, annualSaving) == Grow(DecimalSub(balance, annualSaving))

\* Balance after a year of calculateProjection: balance += annualSaving, then
\* balance = balance * (1 + INVESTMENT_RETURN_RATE).
ProjectionYear(balance, annualSaving) == Grow(DecimalAdd(balance, annualSaving))

\* The loop of calculateProjection on its variables l (year, balance,
\* projection): year = 1..years.
RECURSIVE ProjectionLoop(_, _, _)
ProjectionLoop(annualSaving, years, l) ==
    IF l.year > years THEN l.projection
    ELSE LET grown == ProjectionYear(l.balance, annualSaving)
         IN  ProjectionLoop(annualSaving, years,
                 [ year       |-> l.year + 1,
                   balance    |-> grown,
                   projection |-> Append(l.projection, DecimalRound(grown)) ])

\* FinancialCalculator.calculateProjection(annualSaving, years, startingBalance),
\* the amounts in money, the result a sequence of money amounts.
calculateProjection(annualSaving, years, startingBalance) ==
    ProjectionLoop(DecimalOf(annualSaving), years,
        [ year |-> 1, balance |-> DecimalOf(startingBalance), projection |-> <<>> ])

\* The loop of calculateFifteenYearValue stopping a year early.
RECURSIVE FifteenYearLoopShort(_, _)
FifteenYearLoopShort(annualSaving, l) ==
    IF l.i >= PROJECTION_YEARS THEN l.balance
    ELSE FifteenYearLoopShort(annualSaving,
             [ i |-> l.i + 1, balance |-> Grow(DecimalAdd(l.balance, annualSaving)) ])

\* The loop of calculateFifteenYearValue on its variables l (i, balance):
\* i = 1..PROJECTION_YEARS.
RECURSIVE FifteenYearLoop(_, _)
FifteenYearLoop(annualSaving, l) ==
    IF l.i > PROJECTION_YEARS THEN l.balance
    ELSE FifteenYearLoop(annualSaving,
             [ i |-> l.i + 1, balance |-> Grow(DecimalAdd(l.balance, annualSaving)) ])

\* FinancialCalculator.calculateFifteenYearValue(annualSaving, startingBalance)
calculateFifteenYearValue(annualSaving, startingBalance) ==
    DecimalRound(FifteenYearLoop(DecimalOf(annualSaving),
                     [ i |-> 1, balance |-> DecimalOf(startingBalance) ]))

\* The last year calculateCrossoverPoint projects.
CROSSOVER_YEARS == 50

CrossoverRecord(year, assets, passiveIncome, earnedIncome) ==
    [ year |-> year, assets |-> assets, passiveIncome |-> passiveIncome,
      earnedIncome |-> earnedIncome ]

\* assets * WITHDRAWAL_RATE
PassiveIncome(assets) == DecimalTimes(assets, WITHDRAWAL_RATE)

\* The year's assets with the contribution made before the growth.
CrossoverAssetsContributeFirst(assets, annualSavings) ==
    Grow(DecimalAdd(assets, annualSavings))

\* assets = assets * (1 + INVESTMENT_RETURN_RATE) + annualSavings
CrossoverAssets(assets, annualSavings) == DecimalAdd(Grow(assets), annualSavings)

\* The crossover year with the test of crossoverYear === -1 left out.
CrossoverYearLastWins(crossoverYear, year, passiveIncome, earnedIncome) ==
    IF DecimalLeq(DecimalOf(earnedIncome), passiveIncome) THEN year ELSE crossoverYear

\* crossoverYear after a year of the loop of calculateCrossoverPoint.
CrossoverYear(crossoverYear, year, passiveIncome, earnedIncome) ==
    IF DecimalLeq(DecimalOf(earnedIncome), passiveIncome) /\ crossoverYear = Never
    THEN year ELSE crossoverYear

\* The loop of calculateCrossoverPoint left as soon as the crossover is found.
RECURSIVE CrossoverLoopUntilCrossover(_, _, _)
CrossoverLoopUntilCrossover(earnedIncome, annualSavings, l) ==
    IF l.year > CROSSOVER_YEARS \/ l.crossoverYear # Never
    THEN [years |-> l.crossoverYear, projectionData |-> l.projectionData]
    ELSE LET grown         == CrossoverAssets(l.assets, annualSavings)
             passiveIncome == PassiveIncome(grown)
         IN  CrossoverLoopUntilCrossover(earnedIncome, annualSavings,
                 [ year           |-> l.year + 1,
                   assets         |-> grown,
                   projectionData |->
                       Append(l.projectionData,
                              CrossoverRecord(l.year, grown, passiveIncome, earnedIncome)),
                   crossoverYear  |->
                       CrossoverYear(l.crossoverYear, l.year, passiveIncome, earnedIncome) ])

\* The loop of calculateCrossoverPoint on its variables l (year, assets,
\* projectionData, crossoverYear): year = 1..CROSSOVER_YEARS.
RECURSIVE CrossoverLoop(_, _, _)
CrossoverLoop(earnedIncome, annualSavings, l) ==
    IF l.year > CROSSOVER_YEARS
    THEN [years |-> l.crossoverYear, projectionData |-> l.projectionData]
    ELSE LET grown         == CrossoverAssets(l.assets, annualSavings)
             passiveIncome == PassiveIncome(grown)
         IN  CrossoverLoop(earnedIncome, annualSavings,
                 [ year           |-> l.year + 1,
                   assets         |-> grown,
                   projectionData |->
                       Append(l.projectionData,
                              CrossoverRecord(l.year, grown, passiveIncome, earnedIncome)),
                   crossoverYear  |->
                       CrossoverYear(l.crossoverYear, l.year, passiveIncome, earnedIncome) ])

\* FinancialCalculator.calculateCrossoverPoint(earnedIncome, currentAssets,
\* annualSavings), the arguments in money; assets and passiveIncome of the
\* records are exact decimals.
calculateCrossoverPoint(earnedIncome, currentAssets, annualSavings) ==
    LET startingPassiveIncome == PassiveIncome(DecimalOf(currentAssets))
    IN  CrossoverLoop(earnedIncome, DecimalOf(annualSavings),
            [ year           |-> 1,
              assets         |-> DecimalOf(currentAssets),
              projectionData |->
                  << CrossoverRecord(0, DecimalOf(currentAssets),
                                     startingPassiveIncome, earnedIncome) >>,
              crossoverYear  |->
                  IF DecimalLeq(DecimalOf(earnedIncome), startingPassiveIncome)
                  THEN 0 ELSE Never ])

\* calculateAllCrossoverPoints running the investor on the worker's saving.
calculateAllCrossoverPointsSameSaving(calcs) ==
    [ worker   |-> calculateCrossoverPoint(calcs.afterTaxIncome,
                       calcs.wealthAccount, calcs.estimatedSaving),
      investor |-> calculateCrossoverPoint(calcs.afterTaxIncome,
                       calcs.wealthAccount, calcs.estimatedSaving) ]

\* calculateAllCrossoverPoints with the two savings exchanged.
calculateAllCrossoverPointsExchanged(calcs) ==
    [ worker   |-> calculateCrossoverPoint(calcs.afterTaxIncome,
                       calcs.wealthAccount, calcs.targetSaving),
      investor |-> calculateCrossoverPoint(calcs.afterTaxIncome,
                       calcs.wealthAccount, calcs.estimatedSaving) ]

\* FinancialCalculator.calculateAllCrossoverPoints(calculations)
calculateAllCrossoverPoints(calcs) ==
    [ worker   |-> calculateCrossoverPoint(calcs.afterTaxIncome,
                       calcs.wealthAccount, calcs.estimatedSaving),
      investor |-> calculateCrossoverPoint(calcs.afterTaxIncome,
                       calcs.wealthAccount, calcs.targetSaving) ]

\* The recursion of calculateAssetEndurance on its arguments l (assetBase,
\* yearsElapsed), activation after activation, down to the value returned.
RECURSIVE EnduranceRecursion(_, _)
EnduranceRecursion(annualSpending, l) ==
    LET act == EnduranceBody(annualSpending, l.assetBase, l.yearsElapsed)
    IN  IF act.returns THEN act.value
        ELSE EnduranceRecursion(annualSpending,
                 [ assetBase |-> act.assetBase, yearsElapsed |-> act.yearsElapsed ])

\* FinancialCalculator.calculateAssetEndurance(annualSpending, assetBase),
\* yearsElapsed taking its default 0, the amounts in money.
calculateAssetEndurance(annualSpending, assetBase) ==
    EnduranceRecursion(DecimalOf(annualSpending),
        [ assetBase |-> DecimalOf(assetBase), yearsElapsed |-> 0 ])

\* The metrics from given 15-year wealths.
EnduranceMetrics(calcs, workerWealth15Yr, investorWealth15Yr) ==
    [ workerCurrentEndurance   |->
          calculateAssetEndurance(calcs.estimatedSpending, calcs.wealthAccount),
      investorCurrentEndurance |->
          calculateAssetEndurance(calcs.targetSpending, calcs.wealthAccount),
      workerFutureEndurance    |->
          calculateAssetEndurance(calcs.estimatedSpending, workerWealth15Yr),
      investorFutureEndurance  |->
          calculateAssetEndurance(calcs.targetSpending, investorWealth15Yr),
      workerWealth15Yr         |-> workerWealth15Yr,
      investorWealth15Yr       |-> investorWealth15Yr ]

\* calculateAssetEnduranceMetrics with the two savings exchanged.
calculateAssetEnduranceMetricsExchanged(calcs) ==
    EnduranceMetrics(calcs,
        calculateFifteenYearValue(calcs.targetSaving, calcs.wealthAccount),
        calculateFifteenYearValue(calcs.estimatedSaving, calcs.wealthAccount))

\* calculateAssetEnduranceMetrics taking the wealth from appState instead of
\* its argument.
calculateAssetEnduranceMetricsOfSession(calcs) ==
    LET held == [calcs EXCEPT !.wealthAccount = appState.calculations.wealthAccount]
    IN  EnduranceMetrics(held,
            calculateFifteenYearValue(held.estimatedSaving, held.wealthAccount),
            calculateFifteenYearValue(held.targetSaving, held.wealthAccount))

\* FinancialCalculator.calculateAssetEnduranceMetrics(calculations)
calculateAssetEnduranceMetrics(calcs) ==
    EnduranceMetrics(calcs,
        calculateFifteenYearValue(calcs.estimatedSaving, calcs.wealthAccount),
        calculateFifteenYearValue(calcs.targetSaving, calcs.wealthAccount))

----------------------------------------------------------------------------
(* 8. UIController, 10. event handlers *)

\* The page as the handlers see it is a record b: appState, the savings
\* slider's attributes, the Chart instances alive (created with new Chart and
\* not yet destroyed, as the chart library registers them: an id, the canvas
\* drawn on, and whether the configuration is the mobile one), the id the
\* library gave last, whether the result sections are shown, the fields with
\* an error message, and window.innerWidth.  Other texts the handlers write
\* into the document are left out.

\* No result of calculateCrossoverPoint (null).
NoCrossover == [years |-> Never, projectionData |-> <<>>]

ChartSlots == { "income", "spending", "savings", "projection", "crossover" }

\* A slot of appState.charts holds null or a Chart, named here by its id;
\* ids count from 1.
Null == 0

MOBILE_BREAKPOINT == 768

\* ChartManager.isMobile()
IsMobile(b) == b.innerWidth <= MOBILE_BREAKPOINT

\* new Chart(ctx, ...) in ChartManager.create*Chart, assigned to the slot;
\* the configuration is built for what isMobile() says.
NewChart(b, key) ==
    LET id == b.lastChartId + 1
    IN  [b EXCEPT !.lastChartId = id,
                  !.appState.charts[key] = id,
                  !.chartInstances =
                      @ \cup { [id |-> id, canvas |-> key, mobile |-> IsMobile(b)] }]

\* The loop at the head of updateCharts destroying the three charts
\* updateCharts itself creates, and no other.
DestroyChartsOwnOnly(b) ==
    LET own == { "income", "spending", "savings" }
    IN  [b EXCEPT
          !.appState.charts =
              [key \in ChartSlots |->
                  IF key \in own THEN Null ELSE b.appState.charts[key]],
          !.chartInstances =
              { c \in @ : c.canvas \notin own \/ c.id # b.appState.charts[c.canvas] }]

\* The loop at the head of updateCharts: every slot that holds a chart has
\* it destroyed and is set to null.
DestroyCharts(b) ==
    [b EXCEPT
      !.appState.charts = [key \in ChartSlots |-> Null],
      !.chartInstances = { c \in @ : c.id # b.appState.charts[c.canvas] }]

\* UIController.updateCharts(), the three canvases being in the document
updateCharts(b) ==
    NewChart(NewChart(NewChart(DestroyCharts(b), "income"), "spending"), "savings")

\* parseInt of a number's text: the whole dollars, toward zero
parseInt(v) ==
    IF v >= 0 THEN (v \div Scale) * Scale ELSE 0 - (((0 - v) \div Scale) * Scale)

\* Math.max(1000, Math.round(afterTaxIncome / 100))
SliderStep(afterTaxIncome) ==
    MathMax(Dollars(1000), Dollars((afterTaxIncome + 50 * Scale) \div (100 * Scale)))

\* Math.round((estimatedSaving + targetSaving) / 2)
SliderValue(estimatedSaving, targetSaving) ==
    Dollars((estimatedSaving + targetSaving + Scale) \div (2 * Scale))

\* UIController.createProjectionChart(), the canvas being in the document
createProjectionChart(b) == NewChart(b, "projection")

\* UIController.initializeProjection(), the slider being in the document
initializeProjection(b) ==
    LET c == b.appState.calculations
        value == SliderValue(c.estimatedSaving, c.targetSaving)
    IN  createProjectionChart(
          [b EXCEPT
            !.slider = [ max   |-> c.afterTaxIncome,
                         step  |-> SliderStep(c.afterTaxIncome),
                         value |-> value ],
            !.appState.projectionData =
                [ current  |-> calculateProjection(c.estimatedSaving,
                                   PROJECTION_YEARS, c.wealthAccount),
                  target   |-> calculateProjection(c.targetSaving,
                                   PROJECTION_YEARS, c.wealthAccount),
                  adjusted |-> calculateProjection(parseInt(value),
                                   PROJECTION_YEARS, c.wealthAccount),
                  adjustedSavings |-> Undefined ]])

\* updateProjectionChart writing the slider's series over the current one.
updateProjectionChartOverCurrent(b) ==
    LET adjustedSavings == parseInt(b.slider.value)
    IN  [b EXCEPT
          !.appState.projectionData.current =
              calculateProjection(adjustedSavings, PROJECTION_YEARS,
                                  b.appState.calculations.wealthAccount),
          !.appState.projectionData.adjustedSavings = adjustedSavings]

\* UIController.updateProjectionChart(): the chart of the projection slot,
\* if there is one, is updated in place.
updateProjectionChart(b) ==
    LET adjustedSavings == parseInt(b.slider.value)
    IN  [b EXCEPT
          !.appState.projectionData.adjusted =
              calculateProjection(adjustedSavings, PROJECTION_YEARS,
                                  b.appState.calculations.wealthAccount),
          !.appState.projectionData.adjustedSavings = adjustedSavings]

\* UIController.createCrossoverChart(), the canvas being in the document
createCrossoverChart(b) == NewChart(b, "crossover")

\* UIController.initializeCrossover()
initializeCrossover(b) ==
    createCrossoverChart(
      [b EXCEPT !.appState.crossoverData =
                    calculateAllCrossoverPoints(b.appState.calculations)])

\* UIController.showAllSections()
showAllSections(b) == [b EXCEPT !.shown = TRUE]

\* formatEndurance(years) of updateAssetEndurance: the text shown, the
\* number of `${years} years` left out.
formatEndurance(years) ==
    IF years = Indefinite THEN "Indefinite"
    ELSE IF years = 0 THEN "N/A"
    ELSE "years"

\* handleCalculatorSubmit storing the inputs before it validates them.
handleCalculatorSubmitStoringFirst(b, f) ==
    LET in == FormInputs(f)
        errs == validateCalculatorForm(in)
        r == calculate(in)
        stored == [b EXCEPT !.formErrors = errs, !.appState.userInputs = in]
    IN  IF ~displayErrors(errs) \/ r.threw THEN stored
        ELSE showAllSections(initializeCrossover(initializeProjection(updateCharts(
                 [stored EXCEPT !.appState.calculations = r.value]))))

\* handleCalculatorSubmit(event) with the form's fields f: displayErrors
\* replaces the messages shown on the form, and the handler returns if there
\* is one.  A TypeError of calculate leaves the handler after the inputs are
\* stored.
handleCalculatorSubmit(b, f) ==
    LET in == FormInputs(f)
        errs == validateCalculatorForm(in)
        r == calculate(in)
        validated == [b EXCEPT !.formErrors = errs]
    IN  IF ~displayErrors(errs) THEN validated
        ELSE IF r.threw THEN [validated EXCEPT !.appState.userInputs = in]
        ELSE showAllSections(initializeCrossover(initializeProjection(updateCharts(
                 [validated EXCEPT !.appState.userInputs = in,
                                   !.appState.calculations = r.value]))))

\* handleSavingsSliderInput(), the slider standing at value
handleSavingsSliderInput(b, value) ==
    updateProjectionChart([b EXCEPT !.slider.value = value])

\* The function handleWindowResize hands to setTimeout, run at innerWidth.
ResizeCallback(b, width) ==
    LET wasMobile == width > MOBILE_BREAKPOINT
        isMobile == width <= MOBILE_BREAKPOINT
        recreated == updateCharts(b)
        withProjection ==
            IF Len(b.appState.projectionData.current) > 0
            THEN createProjectionChart(recreated) ELSE recreated
    IN  IF wasMobile # isMobile /\ b.appState.calculations.afterTaxIncome # 0
        THEN IF b.appState.crossoverData.worker # NoCrossover
             THEN createCrossoverChart(withProjection) ELSE withProjection
        ELSE b

\* The engine pipeline on the inputs in: calculate, and on its record the
\* two projections, the endurance metrics and the crossover points.
EnginePipeline(in) ==
    LET r == calculate(in)
    IN  IF r.threw THEN [ threw |-> TRUE ]
        ELSE [ threw        |-> FALSE,
               calculations |-> r.value,
               current      |-> calculateProjection(r.value.estimatedSaving,
                                    PROJECTION_YEARS, r.value.wealthAccount),
               target       |-> calculateProjection(r.value.targetSaving,
                                    PROJECTION_YEARS, r.value.wealthAccount),
               endurance    |-> calculateAssetEnduranceMetrics(r.value),
               crossover    |-> calculateAllCrossoverPoints(r.value) ]

----------------------------------------------------------------------------
(* Bounds and input sets *)

\* Small incomes: -1 .. MaxIncomeSteps half dollars.
MaxIncomeSteps == 20

\* Small wealth accounts: -1 .. MaxWealthSteps half dollars.
MaxWealthSteps == 150

\* Small state taxes: -1 .. MaxStateTaxSteps half dollars.
MaxStateTaxSteps == 3

\* Large wealth accounts: 0 .. MaxWealthBlocks blocks of 50,000 dollars.
MaxWealthBlocks == 20

\* Incomes above every threshold: top threshold plus 1 .. MaxTopBlocks blocks
\* of 100,000 dollars.
MaxTopBlocks == 3

\* Form fields: -1 .. MaxFieldSteps half dollars.
MaxFieldSteps == 4

\* The finite thresholds of all four tables.
Thresholds ==
    { TAX_BRACKETS[k][i].threshold : k \in FilingStatusKeys, i \in 1..6 }

SmallIncomes == { HalfDollars(h) : h \in -1..MaxIncomeSteps }

\* Every threshold, half a dollar below and above it, the spec's example
\* income, and incomes in the unbounded last bracket.
LargeIncomes ==
    UNION { { t - HalfDollars(1), t, t + HalfDollars(1) } : t \in Thresholds }
    \cup { Dollars(100000) }
    \cup { Dollars(751600) + b * Dollars(100000) : b \in 1..MaxTopBlocks }

\* The four keys, the unset status, an unknown status, and two names
\* inherited from Object.prototype.
FilingStatusValues == FilingStatusKeys \cup { "", "widowed", "constructor", "toString" }

NoInputs ==
    [ preTaxIncome |-> 0, wealthAccount |-> 0, stateIncomeTax |-> 0, filingStatus |-> "" ]

NotCalled == [threw |-> FALSE, value |-> 0]

NotCalculated == [threw |-> FALSE, value |-> InitialCalculations]

\* The engines' variables while no engine is called.
NoProjectionArgs == [annualSaving |-> 0, years |-> 0, startingBalance |-> 0]

NoEnduranceArgs == [annualSpending |-> 0, assetBase |-> 0]

NoCrossoverArgs == [earnedIncome |-> 0, currentAssets |-> 0, annualSavings |-> 0]

\* appState.crossoverData as the ApplicationState constructor sets it.
InitialCrossoverData == [worker |-> NoCrossover, investor |-> NoCrossover]

ProjectionIdle ==
    /\ projectionArgs = NoProjectionArgs
    /\ projectionSeries = <<>>
    /\ fifteenYearValue = 0

EnduranceIdle ==
    /\ enduranceArgs = NoEnduranceArgs
    /\ stack = <<>>
    /\ endurance = Undefined
    /\ enduranceMetrics = Undefined

CrossoverIdle ==
    /\ crossoverArgs = NoCrossoverArgs
    /\ crossover = NoCrossover
    /\ crossoverPoints = InitialCrossoverData

EnginesIdle == ProjectionIdle /\ EnduranceIdle /\ CrossoverIdle

CalcIdle ==
    /\ income = 0
    /\ filingStatus = ""
    /\ federalTax = NotCalled
    /\ inputs = NoInputs
    /\ calculations = NotCalculated
    /\ form = NoInputs
    /\ errors = {}

\* appState as the ApplicationState constructor sets it; projectionData has
\* no adjustedSavings property yet.
InitialAppState ==
    [ userInputs     |-> NoInputs,
      calculations   |-> InitialCalculations,
      charts         |-> [key \in ChartSlots |-> Null],
      projectionData |-> [ current |-> <<>>, target |-> <<>>, adjusted |-> <<>>,
                           adjustedSavings |-> Undefined ],
      crossoverData  |-> InitialCrossoverData ]

\* The page once the script has run: nothing calculated, no chart, the result
\* sections hidden, no timer.  The slider's attributes are written by the
\* first accepted submission before anything reads them.
PageLoaded ==
    /\ appState = InitialAppState
    /\ slider = [max |-> 0, step |-> 0, value |-> 0]
    /\ chartInstances = {}
    /\ lastChartId = 0
    /\ shown = FALSE
    /\ formErrors = {}
    /\ resizeTimeout = FALSE

\* the engine pipeline has not been called
NotRun == [calls |-> 0, inputs |-> NoInputs, outputs |-> <<>>]

SessionIdle == PageLoaded /\ innerWidth = MOBILE_BREAKPOINT + 1 /\ pipeline = NotRun

----------------------------------------------------------------------------
(* calculateFederalTax applied to drawn arguments *)

InitTax ==
    /\ SessionIdle
    /\ EnginesIdle
    /\ pc = "tax"
    /\ income \in SmallIncomes \cup LargeIncomes
    /\ filingStatus \in FilingStatusValues
    /\ federalTax = NotCalled
    /\ inputs = NoInputs
    /\ calculations = NotCalculated
    /\ form = NoInputs
    /\ errors = {}

CallCalculateFederalTax ==
    /\ pc = "tax"
    /\ federalTax' = calculateFederalTax(income, filingStatus)
    /\ pc' = "done"
    /\ UNCHANGED <<income, filingStatus, inputs, calculations, form, errors, engineVars, sessionVars>>

NextTax == CallCalculateFederalTax

SpecTax == InitTax /\ [][NextTax]_vars

----------------------------------------------------------------------------
(* FinancialCalculator.calculate applied to drawn inputs *)

Inputs(i, w, st, fs) ==
    [ preTaxIncome |-> i, wealthAccount |-> w, stateIncomeTax |-> st, filingStatus |-> fs ]

SmallWealth == { EmptyString } \cup { HalfDollars(h) : h \in -1..MaxWealthSteps }

LargeWealth == { EmptyString } \cup { b * Dollars(50000) : b \in 0..MaxWealthBlocks }

\* Small state taxes, and the income itself and half a dollar more.
SmallStateTaxes(i) ==
    { HalfDollars(h) : h \in -1..MaxStateTaxSteps } \cup { i, i + HalfDollars(1) }

LargeStateTaxes(i) == { 0, HalfDollars(1), Dollars(3000), i }

\* The wealth accounts and state taxes drawn with income i: a dense grid
\* around the small incomes, a sparse one around the large.
WealthFor(i) == IF i \in SmallIncomes THEN SmallWealth ELSE LargeWealth

StateTaxesFor(i) == IF i \in SmallIncomes THEN SmallStateTaxes(i) ELSE LargeStateTaxes(i)

InitCalc ==
    /\ SessionIdle
    /\ EnginesIdle
    /\ pc = "calculate"
    /\ \E i \in SmallIncomes \cup LargeIncomes :
         \E w \in WealthFor(i), st \in StateTaxesFor(i), fs \in FilingStatusValues :
            inputs = Inputs(i, w, st, fs)
    /\ calculations = NotCalculated
    /\ income = 0
    /\ filingStatus = ""
    /\ federalTax = NotCalled
    /\ form = NoInputs
    /\ errors = {}

CallCalculate ==
    /\ pc = "calculate"
    /\ calculations' = calculate(inputs)
    /\ pc' = "done"
    /\ UNCHANGED <<income, filingStatus, federalTax, inputs, form, errors, engineVars, sessionVars>>

NextCalc == CallCalculate

SpecCalc == InitCalc /\ [][NextCalc]_vars

----------------------------------------------------------------------------
(* handleCalculatorSubmit: reading the form and validating it *)

FieldTexts == { EmptyString, GarbageText } \cup { HalfDollars(h) : h \in -1..MaxFieldSteps }

FormStatusValues == FilingStatusKeys \cup { "", "widowed" }

InitValidate ==
    /\ SessionIdle
    /\ EnginesIdle
    /\ pc = "submit"
    /\ \E i \in FieldTexts, w \in FieldTexts, st \in FieldTexts, fs \in FormStatusValues :
         form = Inputs(i, w, st, fs)
    /\ inputs = NoInputs
    /\ errors = {}
    /\ income = 0
    /\ filingStatus = ""
    /\ federalTax = NotCalled
    /\ calculations = NotCalculated

\* handleCalculatorSubmit up to its early return: the inputs are read from
\* the form and validated, and displayErrors decides whether it goes on.
SubmitValidation ==
    /\ pc = "submit"
    /\ inputs' = FormInputs(form)
    /\ errors' = validateCalculatorForm(inputs')
    /\ pc' = IF displayErrors(errors') THEN "accepted" ELSE "rejected"
    /\ UNCHANGED <<income, filingStatus, federalTax, calculations, form, engineVars, sessionVars>>

NextValidate == SubmitValidation

SpecValidate == InitValidate /\ [][NextValidate]_vars

----------------------------------------------------------------------------
(* Claims about calculateFederalTax (SpecTax) *)

\* The lower bound of bracket i: the threshold before it, 0 for the first.
LowerBound(brackets, i) == IF i = 1 THEN 0 ELSE brackets[i - 1].threshold

\* Sum over the brackets 1..n whose lower bound is below inc of
\* rate_i * (min(inc, threshold_i) - threshold_{i-1}).
RECURSIVE MarginalSum(_, _, _)
MarginalSum(brackets, n, inc) ==
    IF n = 0 THEN 0
    ELSE MarginalSum(brackets, n - 1, inc)
         + (IF LowerBound(brackets, n) < inc
            THEN Mul(MathMin(inc, brackets[n].threshold) - LowerBound(brackets, n),
                     brackets[n].rate)
            ELSE 0)

\* Sum over the brackets 1..k of the bracket's full width times its rate.
RECURSIVE FullWidthSum(_, _)
FullWidthSum(brackets, k) ==
    IF k = 0 THEN 0
    ELSE FullWidthSum(brackets, k - 1)
         + Mul(brackets[k].threshold - LowerBound(brackets, k), brackets[k].rate)

\* C2: for income > 0 and each of the four filing statuses, calculateFederalTax
\* returns the rounded sum, over the brackets whose lower bound is below the
\* income, of rate * (min(income, threshold) - previous threshold); at an
\* income equal to the threshold of bracket k it is the rounded sum of the
\* full widths of brackets 1..k times their rates.
C2_MarginalBracketSum ==
    (pc = "done" /\ income > 0 /\ filingStatus \in FilingStatusKeys) =>
        LET brackets == TAX_BRACKETS[filingStatus]
        IN  /\ federalTax = Returned(MathRound(MarginalSum(brackets, Len(brackets), income)))
            /\ \A k \in 1..(Len(brackets) - 1) :
                 income = brackets[k].threshold =>
                    federalTax = Returned(MathRound(FullWidthSum(brackets, k)))

\* An income at the second threshold of the single table: 1192.50 + 4386.00,
\* rounded up.
C2_Witness ==
    /\ pc = "done"
    /\ filingStatus = "single"
    /\ income = Dollars(48475)
    /\ federalTax = Returned(Dollars(5579))

\* C3: calculateFederalTax returns 0, without raising an error, whenever
\* income <= 0 or the filing status is not one of the four keys.
C3_ZeroWithoutError ==
    (pc = "done" /\ (income <= 0 \/ filingStatus \notin FilingStatusKeys)) =>
        federalTax = Returned(0)

----------------------------------------------------------------------------
(* Claims about FinancialCalculator.calculate (SpecCalc) *)

calc == calculations.value

\* The locals of the call that produced calculations.
locals == CalculateLocals(inputs, calc.federalTax)

returned == pc = "done" /\ ~calculations.threw

\* The validation contract: preTaxIncome > 0, wealthAccount >= 0 or blank,
\* 0 <= stateIncomeTax <= preTaxIncome, one of the four filing statuses.
ValidContract(in) ==
    /\ in.preTaxIncome > 0
    /\ in.wealthAccount = EmptyString \/ in.wealthAccount >= 0
    /\ 0 <= in.stateIncomeTax
    /\ in.stateIncomeTax <= in.preTaxIncome
    /\ in.filingStatus \in FilingStatusKeys

\* C1: for every input the validation contract accepts, the returned record
\* has targetSaving >= estimatedSaving and targetSpending <= estimatedSpending.
C1_InvestorNeverWorse ==
    (pc = "done" /\ ValidContract(inputs)) =>
        /\ ~calculations.threw
        /\ calc.targetSaving >= calc.estimatedSaving
        /\ calc.targetSpending <= calc.estimatedSpending

\* A valid input whose first-pass saving is below the worker's saving, so
\* that a correction acts.
C1_Witness ==
    /\ returned
    /\ ValidContract(inputs)
    /\ locals.first.targetSaving < locals.estimatedSaving
    /\ calc.targetSaving = calc.estimatedSaving
    /\ calc.targetSaving > 0

\* C4: preTaxIncome = 100000, single, stateIncomeTax = 3000 gives
\* federalTax = 17053.
C4_ExampleFederalTax ==
    ( /\ returned
      /\ inputs.preTaxIncome = Dollars(100000)
      /\ inputs.filingStatus = "single"
      /\ inputs.stateIncomeTax = Dollars(3000) ) =>
        calc.federalTax = Dollars(17053)

\* C5: for every input, calculate's federal tax is calculateFederalTax's
\* (its error included), totalTax = federalTax + stateIncomeTax,
\* afterTaxIncome = preTaxIncome - totalTax unclamped (negative when totalTax
\* exceeds preTaxIncome), estimatedSaving = round(0.10 * preTaxIncome) and
\* estimatedSpending = round(afterTaxIncome - 0.10 * preTaxIncome).
C5_TaxAndBaseline ==
    pc = "done" =>
        LET fed == calculateFederalTax(inputs.preTaxIncome, inputs.filingStatus)
        IN  /\ calculations.threw = fed.threw
            /\ ~calculations.threw =>
                 /\ calc.federalTax = fed.value
                 /\ calc.totalTax = calc.federalTax + inputs.stateIncomeTax
                 /\ calc.afterTaxIncome = inputs.preTaxIncome - calc.totalTax
                 /\ calc.totalTax > inputs.preTaxIncome => calc.afterTaxIncome < 0
                 /\ calc.estimatedSaving =
                        MathRound(Mul(inputs.preTaxIncome, DEFAULT_SAVINGS_RATE))
                 /\ calc.estimatedSpending =
                        MathRound(calc.afterTaxIncome
                                  - Mul(inputs.preTaxIncome, DEFAULT_SAVINGS_RATE))

\* A state tax above the income: the after-tax income is negative.
C5_Witness ==
    /\ returned
    /\ inputs.preTaxIncome > 0
    /\ inputs.filingStatus \in FilingStatusKeys
    /\ calc.totalTax > inputs.preTaxIncome
    /\ calc.afterTaxIncome < 0
    /\ calc.estimatedSaving > 0

\* The targets calculate would return with the two corrections swapped:
\* the spending ceiling first, the saving floor second.
SwappedOrderTargets(l) ==
    LET capped  == SpendingCeiling(l.first, l.afterTaxIncome, l.estimatedSpending)
        floored == SavingFloor(capped, l.afterTaxIncome, l.estimatedSaving)
    IN  Targets(MathRound(floored.targetSpending), MathRound(floored.targetSaving))

OrderMattersFor(in) ==
    LET result == calculate(in)
    IN  /\ ~result.threw
        /\ SwappedOrderTargets(CalculateLocals(in, result.value.federalTax))
             # Targets(result.value.targetSpending, result.value.targetSaving)

\* C6 as claimed: there is an input for which the swapped order of the two
\* corrections yields a different (targetSpending, targetSaving).  (Stated of
\* the states in which a call has returned; the input ranges over all inputs drawn.)
C6_OrderMatters ==
    pc = "done" =>
    \E i \in SmallIncomes \cup LargeIncomes :
       \E w \in WealthFor(i), st \in StateTaxesFor(i), fs \in FilingStatusValues :
          OrderMattersFor(Inputs(i, w, st, fs))

\* C6 as amended: for every input, the swapped order of the two corrections
\* yields the same (targetSpending, targetSaving) as the order of the code.
C6_OrderDoesNotMatter ==
    returned =>
        SwappedOrderTargets(locals) = Targets(calc.targetSpending, calc.targetSaving)

\* An input on which a correction changes the first-pass targets, in either order.
C6_Witness ==
    /\ returned
    /\ inputs.preTaxIncome > 0
    /\ locals.targets # locals.first
    /\ SpendingCeiling(locals.first, locals.afterTaxIncome, locals.estimatedSpending)
         # locals.first
    /\ SwappedOrderTargets(locals) = Targets(calc.targetSpending, calc.targetSaving)

\* C8: a blank wealthAccount is treated as 0: the record has wealthAccount = 0
\* and equals the record of the same inputs with an explicit 0.
C8_BlankWealthIsZero ==
    (returned /\ inputs.wealthAccount = EmptyString) =>
        /\ calc.wealthAccount = 0
        /\ calculations = calculate([inputs EXCEPT !.wealthAccount = 0])

C8_Witness ==
    /\ returned
    /\ inputs.wealthAccount = EmptyString
    /\ inputs.preTaxIncome > 0
    /\ calc.wealthAccount = 0
    /\ calc.targetSaving > calc.estimatedSaving

\* C9: when neither correction applies, targetSpending =
\* round(0.5 * afterTaxIncome + 0.05 * wealthAccount) and targetSaving =
\* round(max(0, afterTaxIncome - (0.5 * afterTaxIncome + 0.05 * wealthAccount))).
C9_FirstPassTargets ==
    ( /\ returned
      /\ locals.first.targetSaving >= locals.estimatedSaving
      /\ locals.first.targetSpending <= locals.estimatedSpending ) =>
        LET spending == Mul(calc.afterTaxIncome, 50) + Mul(calc.wealthAccount, 5)
        IN  /\ calc.targetSpending = MathRound(spending)
            /\ calc.targetSaving = MathRound(MathMax(0, calc.afterTaxIncome - spending))

\* Neither correction applies, with a wealth account that adds to the spending.
C9_Witness ==
    /\ returned
    /\ inputs.preTaxIncome > 0
    /\ calc.wealthAccount > 0
    /\ locals.first.targetSaving >= locals.estimatedSaving
    /\ locals.first.targetSpending <= locals.estimatedSpending
    /\ calc.targetSaving > calc.estimatedSaving

\* A UserInputs value of the data model: non-negative amounts (a blank
\* wealthAccount being absent) and one of the four filing statuses.
DataModelInputs(in) ==
    /\ in.preTaxIncome >= 0
    /\ in.wealthAccount = EmptyString \/ in.wealthAccount >= 0
    /\ in.stateIncomeTax >= 0
    /\ in.filingStatus \in FilingStatusKeys

\* C10 as claimed: every money field of the record other than afterTaxIncome
\* is a whole number of currency units.
C10_AllFieldsWhole ==
    (pc = "done" /\ DataModelInputs(inputs)) =>
        /\ ~calculations.threw
        /\ IsWhole(calc.federalTax)
        /\ IsWhole(calc.totalTax)
        /\ IsWhole(calc.targetSpending)
        /\ IsWhole(calc.targetSaving)
        /\ IsWhole(calc.estimatedSaving)
        /\ IsWhole(calc.estimatedSpending)
        /\ IsWhole(calc.wealthAccount)

\* C10 as amended: federalTax, targetSpending, targetSaving, estimatedSaving
\* and estimatedSpending are whole; totalTax and wealthAccount are not rounded:
\* totalTax is whole exactly when stateIncomeTax is, and wealthAccount is the
\* input as given (0 for a blank one).
C10_RoundedFieldsWhole ==
    (pc = "done" /\ DataModelInputs(inputs)) =>
        /\ ~calculations.threw
        /\ IsWhole(calc.federalTax)
        /\ IsWhole(calc.targetSpending)
        /\ IsWhole(calc.targetSaving)
        /\ IsWhole(calc.estimatedSaving)
        /\ IsWhole(calc.estimatedSpending)
        /\ IsWhole(calc.totalTax) <=> IsWhole(inputs.stateIncomeTax)
        /\ calc.wealthAccount =
              IF inputs.wealthAccount = EmptyString THEN 0 ELSE inputs.wealthAccount

\* Fractional inputs and fractional unrounded targets: the rounded fields are
\* whole, totalTax and wealthAccount are not.
C10_Witness ==
    /\ returned
    /\ DataModelInputs(inputs)
    /\ ~IsWhole(locals.targets.targetSaving)
    /\ ~IsWhole(locals.estimatedSaving)
    /\ IsWhole(calc.targetSaving)
    /\ ~IsWhole(calc.totalTax)
    /\ ~IsWhole(calc.wealthAccount)

----------------------------------------------------------------------------
(* Claims about the form validation (SpecValidate) *)

decided == pc \in { "accepted", "rejected" }

----------------------------------------------------------------------------
(* calculateProjection and calculateFifteenYearValue applied to drawn arguments *)

MaxSavingSteps == 6

MaxBalanceSteps == 6

MaxProjectionYears == 16

\* Annual savings: a half-dollar grid around zero and three large amounts.
SavingAmounts ==
    { HalfDollars(h) : h \in -2..MaxSavingSteps }
    \cup { Dollars(10000), Dollars(12345), Dollars(57500) }

\* Starting balances: a half-dollar grid around zero and two large amounts.
BalanceAmounts ==
    { HalfDollars(h) : h \in -2..MaxBalanceSteps }
    \cup { HalfDollars(301), Dollars(250000) }

InitProjection ==
    /\ SessionIdle
    /\ pc = "projection"
    /\ \E s \in SavingAmounts, y \in 0..MaxProjectionYears, b \in BalanceAmounts :
         projectionArgs = [annualSaving |-> s, years |-> y, startingBalance |-> b]
    /\ projectionSeries = <<>>
    /\ fifteenYearValue = 0
    /\ EnduranceIdle
    /\ CrossoverIdle
    /\ CalcIdle

CallCalculateProjection ==
    /\ pc = "projection"
    /\ projectionSeries' = calculateProjection(projectionArgs.annualSaving,
                               projectionArgs.years, projectionArgs.startingBalance)
    /\ pc' = "fifteen"
    /\ UNCHANGED <<calcVars, projectionArgs, fifteenYearValue, enduranceVars, crossoverVars, sessionVars>>

CallCalculateFifteenYearValue ==
    /\ pc = "fifteen"
    /\ fifteenYearValue' = calculateFifteenYearValue(projectionArgs.annualSaving,
                               projectionArgs.startingBalance)
    /\ pc' = "done"
    /\ UNCHANGED <<calcVars, projectionArgs, projectionSeries, enduranceVars, crossoverVars, sessionVars>>

NextProjection == CallCalculateProjection \/ CallCalculateFifteenYearValue

SpecProjection == InitProjection /\ [][NextProjection]_vars

----------------------------------------------------------------------------
(* Claims about calculateProjection and calculateFifteenYearValue (SpecProjection) *)

projected == pc \in { "fifteen", "done" }

\* B_0 .. B_k: B_0 = b and B_j = (B_(j-1) + s) * 1.07.
RECURSIVE Balances(_, _, _)
Balances(k, s, b) ==
    IF k = 0 THEN << b >>
    ELSE LET before == Balances(k - 1, s, b)
         IN  Append(before,
                    DecimalTimes(DecimalAdd(before[k], s), 100 + INVESTMENT_RETURN_RATE))

\* C11: calculateProjection(annualSaving, years, startingBalance) returns
\* exactly `years` elements, the k-th being Math.round(B_k) with
\* B_0 = startingBalance and B_k = (B_(k-1) + annualSaving) * 1.07: the
\* contribution comes before the growth and no rounded value is carried on.
C11_ContributeThenGrow ==
    projected =>
        LET B == Balances(projectionArgs.years, DecimalOf(projectionArgs.annualSaving),
                          DecimalOf(projectionArgs.startingBalance))
        IN  /\ Len(projectionSeries) = projectionArgs.years
            /\ \A k \in 1..projectionArgs.years :
                   projectionSeries[k] = DecimalRound(B[k + 1])

\* A projection of several years in which the order of contribution and
\* growth shows and a rounded balance carried on would show.
C11_Witness ==
    /\ projected
    /\ projectionArgs.years = PROJECTION_YEARS
    /\ projectionArgs.annualSaving = HalfDollars(3)
    /\ projectionArgs.startingBalance = HalfDollars(5)
    /\ projectionSeries[1] = Dollars(4)
    /\ projectionSeries[PROJECTION_YEARS] = Dollars(47)

\* C12: for annualSaving >= 0 and startingBalance >= 0 the series never
\* decreases; for annualSaving = 10000, years = 15, startingBalance = 0 it has
\* 15 elements, strictly increases, and ends above 150000.
C12_NonDecreasing ==
    projected =>
        /\ (projectionArgs.annualSaving >= 0 /\ projectionArgs.startingBalance >= 0)
              => \A k \in 2..Len(projectionSeries) :
                     projectionSeries[k] >= projectionSeries[k - 1]
        /\ (projectionArgs = [annualSaving |-> Dollars(10000), years |-> 15,
                              startingBalance |-> 0])
              => /\ Len(projectionSeries) = 15
                 /\ \A k \in 2..15 : projectionSeries[k] > projectionSeries[k - 1]
                 /\ projectionSeries[15] > Dollars(150000)

\* The example is projected, and so is a series that stays level for a year.
C12_Witness ==
    /\ projected
    /\ \/ /\ projectionArgs = [annualSaving |-> Dollars(10000), years |-> 15,
                               startingBalance |-> 0]
          /\ projectionSeries[15] = Dollars(268881)
       \/ /\ projectionArgs.annualSaving = 0
          /\ projectionArgs.startingBalance = HalfDollars(1)
          /\ projectionArgs.years >= 2
          /\ projectionSeries[2] = projectionSeries[1]

\* C13: calculateFifteenYearValue(s, b) equals the last element of
\* calculateProjection(s, PROJECTION_YEARS, b).
C13_FifteenYearValueIsLastElement ==
    (pc = "done" /\ projectionArgs.years = PROJECTION_YEARS)
        => fifteenYearValue = projectionSeries[PROJECTION_YEARS]

\* Both are computed for a saving and a balance that are not zero.
C13_Witness ==
    /\ pc = "done"
    /\ projectionArgs = [annualSaving |-> Dollars(12345), years |-> PROJECTION_YEARS,
                         startingBalance |-> HalfDollars(301)]
    /\ fifteenYearValue = Dollars(332348)

----------------------------------------------------------------------------
(* calculateAssetEndurance applied to drawn arguments, activation by activation *)

MaxSpendingSteps == 8

MaxAssetSteps == 12

\* More activations than any call makes: the recursion is never stopped by it.
MaxStackDepth == 60

\* Annual spendings: a half-dollar grid around zero and the two examples.
SpendingAmounts ==
    { HalfDollars(h) : h \in -2..MaxSpendingSteps }
    \cup { Dollars(50000), Dollars(100000) }

\* Asset bases: a grid of five dollars around zero, half a dollar, and the
\* two examples.
AssetAmounts ==
    { Dollars(5 * a) : a \in -1..MaxAssetSteps }
    \cup { HalfDollars(1), Dollars(500000), Dollars(1000000) }

Activation(assetBase, yearsElapsed) ==
    [assetBase |-> assetBase, yearsElapsed |-> yearsElapsed]

\* The call calculateAssetEndurance(annualSpending, assetBase) is entered
\* (yearsElapsed = 0).
InitEndurance ==
    /\ SessionIdle
    /\ pc = "endurance"
    /\ \E s \in SpendingAmounts, a \in AssetAmounts :
         /\ enduranceArgs = [annualSpending |-> s, assetBase |-> a]
         /\ stack = << Activation(DecimalOf(a), 0) >>
    /\ endurance = Undefined
    /\ enduranceMetrics = Undefined
    /\ ProjectionIdle
    /\ CrossoverIdle
    /\ CalcIdle

\* The innermost activation runs: it returns, and its value is returned
\* through every activation below it, or it calls itself.
EnduranceActivation ==
    /\ pc = "endurance"
    /\ Len(stack) < MaxStackDepth
    /\ \E act \in { EnduranceBody(DecimalOf(enduranceArgs.annualSpending),
                                   stack[Len(stack)].assetBase,
                                   stack[Len(stack)].yearsElapsed) } :
           IF act.returns
           THEN /\ endurance' = act.value
                /\ stack' = <<>>
                /\ pc' = "done"
           ELSE /\ stack' = Append(stack, Activation(act.assetBase, act.yearsElapsed))
                /\ UNCHANGED <<endurance, pc>>
    /\ UNCHANGED <<calcVars, projectionVars, enduranceArgs, enduranceMetrics, crossoverVars, sessionVars>>

NextEndurance == EnduranceActivation

SpecEndurance == InitEndurance /\ [][NextEndurance]_vars

\* A call that is running keeps running: the recursion is synchronous code.
FairSpecEndurance == SpecEndurance /\ WF_vars(NextEndurance)

----------------------------------------------------------------------------
(* Claims about calculateAssetEndurance (SpecEndurance, FairSpecEndurance) *)

\* A_0 .. A_k: A_0 = a and A_j = (A_(j-1) - s) * 1.07.
RECURSIVE AssetBases(_, _, _)
AssetBases(k, s, a) ==
    IF k = 0 THEN << a >>
    ELSE LET before == AssetBases(k - 1, s, a)
         IN  Append(before,
                    DecimalTimes(DecimalSub(before[k], s), 100 + INVESTMENT_RETURN_RATE))

\* A - s <= 0
NothingLeft(a, s) == ~DecimalLess(DecimalOf(0), DecimalSub(a, s))

\* y is the smallest y >= 1 with A_(y-1) - s <= 0.
FirstDepletionYear(y, s, a) ==
    /\ y >= 1
    /\ LET A == AssetBases(y - 1, s, a)
       IN  /\ NothingLeft(A[y], s)
           /\ \A j \in 1..(y - 1) : ~NothingLeft(A[j], s)

\* C14: for assetBase >= 0, calculateAssetEndurance(annualSpending, assetBase)
\* returns the indefinite sentinel exactly when annualSpending <= assetBase *
\* 0.07, and otherwise the smallest y >= 1 for which A_(y-1) - annualSpending
\* <= 0, with A_0 = assetBase, A_k = (A_(k-1) - annualSpending) * 1.07;
\* (50000, 1000000) gives the sentinel and (100000, 500000) a finite year.
C14_EnduranceYear ==
    (pc = "done" /\ enduranceArgs.assetBase >= 0) =>
        LET s == DecimalOf(enduranceArgs.annualSpending)
            a == DecimalOf(enduranceArgs.assetBase)
        IN  /\ (endurance = Indefinite)
                  <=> DecimalLeq(s, DecimalTimes(a, INVESTMENT_RETURN_RATE))
            /\ endurance # Indefinite => FirstDepletionYear(endurance, s, a)
            /\ (enduranceArgs = [annualSpending |-> Dollars(50000),
                                 assetBase |-> Dollars(1000000)])
                  => endurance = Indefinite
            /\ (enduranceArgs = [annualSpending |-> Dollars(100000),
                                 assetBase |-> Dollars(500000)])
                  => endurance >= 1

\* The second example returns its year, after several years of spending and
\* growth.
C14_Witness ==
    /\ pc = "done"
    /\ enduranceArgs = [annualSpending |-> Dollars(100000), assetBase |-> Dollars(500000)]
    /\ endurance = 6

\* C15: calculateAssetEndurance always terminates: a base case is reached
\* after finitely many activations, every activation that reaches none
\* handing a strictly smaller asset base to the next.
C15_EnduranceTerminates ==
    /\ <>(pc = "done")
    /\ [][ Len(stack') > Len(stack)
              => DecimalLess(stack'[Len(stack')].assetBase, stack[Len(stack)].assetBase) ]_vars

\* A call that returned only after many activations.
C15_Witness ==
    /\ pc = "done"
    /\ enduranceArgs.assetBase > 0
    /\ endurance > 2 * PROJECTION_YEARS

----------------------------------------------------------------------------
(* calculateCrossoverPoint applied to drawn arguments *)

MaxEarnedSteps == 4

MaxAssetBlocks == 4

MaxSavingsBlocks == 3

\* Earned incomes: zero and below, a grid of 2000 dollars, and 3.50.
EarnedIncomes ==
    { Dollars(2000 * e) : e \in -1..MaxEarnedSteps } \cup { HalfDollars(7) }

\* Current assets: a grid of 40000 dollars from zero, 15 dollars, and a debt.
CurrentAssets ==
    { Dollars(40000 * a) : a \in 0..MaxAssetBlocks }
    \cup { Dollars(15), Dollars(0 - 20000) }

\* Annual savings: a grid of 500 dollars from zero, and half a dollar drawn
\* out every year.
AnnualSavings ==
    { Dollars(500 * s) : s \in 0..MaxSavingsBlocks } \cup { HalfDollars(0 - 1) }

InitCrossover ==
    /\ SessionIdle
    /\ pc = "crossover"
    /\ \E e \in EarnedIncomes, a \in CurrentAssets, s \in AnnualSavings :
         crossoverArgs = [earnedIncome |-> e, currentAssets |-> a, annualSavings |-> s]
    /\ crossover = NoCrossover
    /\ crossoverPoints = InitialCrossoverData
    /\ ProjectionIdle
    /\ EnduranceIdle
    /\ CalcIdle

CallCalculateCrossoverPoint ==
    /\ pc = "crossover"
    /\ crossover' = calculateCrossoverPoint(crossoverArgs.earnedIncome,
                        crossoverArgs.currentAssets, crossoverArgs.annualSavings)
    /\ pc' = "done"
    /\ UNCHANGED <<calcVars, projectionVars, enduranceVars, crossoverArgs, crossoverPoints, sessionVars>>

NextCrossover == CallCalculateCrossoverPoint

SpecCrossover == InitCrossover /\ [][NextCrossover]_vars

----------------------------------------------------------------------------
(* Claims about calculateCrossoverPoint (SpecCrossover) *)

\* The record of year k (the records are numbered from year 0).
RecordOf(result, k) == result.projectionData[k + 1]

\* The recorded passive income of year k is at least the earned income e.
Crosses(result, k, e) == DecimalLeq(DecimalOf(e), RecordOf(result, k).passiveIncome)

\* C16: the crossover year returned is the smallest year in 0..50 whose
\* recorded passiveIncome is >= earnedIncome (year 0 on currentAssets * 0.05),
\* a later crossing not replacing an earlier one, and it is the never
\* sentinel exactly when no year in 0..50 has passiveIncome >= earnedIncome.
C16_FirstCrossingWins ==
    pc = "done" =>
        LET e == crossoverArgs.earnedIncome
            crossing == { k \in 0..50 : Crosses(crossover, k, e) }
        IN  /\ Len(crossover.projectionData) = 50 + 1
            /\ RecordOf(crossover, 0).passiveIncome
                  = DecimalTimes(DecimalOf(crossoverArgs.currentAssets), WITHDRAWAL_RATE)
            /\ (crossover.years = Never) <=> (crossing = {})
            /\ crossing # {} =>
                  /\ crossover.years \in crossing
                  /\ \A k \in crossing : crossover.years <= k

\* A first crossing in the course of the years is returned, though every
\* later year crosses too.
C16_Witness ==
    /\ pc = "done"
    /\ crossover.years > 0
    /\ crossover.years < 50
    /\ \A k \in crossover.years..50 : Crosses(crossover, k, crossoverArgs.earnedIncome)

\* C17: the year-0 record has assets = currentAssets and passiveIncome =
\* currentAssets * 0.05; for every year k in 1..50 the record has
\* assets_k = assets_(k-1) * 1.07 + annualSavings (growth, then the
\* contribution), passiveIncome = assets_k * 0.05 and earnedIncome as given.
C17_GrowThenContribute ==
    pc = "done" =>
        /\ Len(crossover.projectionData) = 50 + 1
        /\ RecordOf(crossover, 0).assets = DecimalOf(crossoverArgs.currentAssets)
        /\ RecordOf(crossover, 0).passiveIncome
              = DecimalTimes(DecimalOf(crossoverArgs.currentAssets), 5)
        /\ \A k \in 1..50 :
              /\ RecordOf(crossover, k).assets
                    = DecimalAdd(DecimalTimes(RecordOf(crossover, k - 1).assets, 107),
                                 DecimalOf(crossoverArgs.annualSavings))
              /\ RecordOf(crossover, k).passiveIncome
                    = DecimalTimes(RecordOf(crossover, k).assets, 5)
              /\ RecordOf(crossover, k).earnedIncome = crossoverArgs.earnedIncome

\* Records of a run with assets and savings, where the order of growth and
\* contribution shows from the first year on.
C17_Witness ==
    /\ pc = "done"
    /\ crossoverArgs.currentAssets = Dollars(40000)
    /\ crossoverArgs.annualSavings = Dollars(500)
    /\ RecordOf(crossover, 1).assets = DecimalOf(Dollars(43300))
    /\ RecordOf(crossover, 1).passiveIncome = DecimalOf(Dollars(2165))

----------------------------------------------------------------------------
(* calculateAllCrossoverPoints applied to the calculations of drawn inputs *)

MaxCrossoverIncomes == 10

\* Inputs of the validation contract: incomes in steps of 10000 dollars,
\* no wealth, some wealth and much wealth, with and without state tax.
CrossoverInputs ==
    { Inputs(Dollars(10000 * i), w, st, fs) :
        i \in 1..MaxCrossoverIncomes,
        w \in { 0, Dollars(50000), Dollars(400000), Dollars(2000000) },
        st \in { 0, Dollars(3000) },
        fs \in { "single", "marriedJointly" } }

InitAllCrossover ==
    /\ SessionIdle
    /\ pc = "crossoverPoints"
    /\ inputs \in CrossoverInputs
    /\ calculations = calculate(inputs)
    /\ income = 0
    /\ filingStatus = ""
    /\ federalTax = NotCalled
    /\ form = NoInputs
    /\ errors = {}
    /\ crossoverArgs = NoCrossoverArgs
    /\ crossover = NoCrossover
    /\ crossoverPoints = InitialCrossoverData
    /\ ProjectionIdle
    /\ EnduranceIdle

CallCalculateAllCrossoverPoints ==
    /\ pc = "crossoverPoints"
    /\ crossoverPoints' = calculateAllCrossoverPoints(calculations.value)
    /\ pc' = "done"
    /\ UNCHANGED <<calcVars, projectionVars, enduranceVars, crossoverArgs, crossover, sessionVars>>

NextAllCrossover == CallCalculateAllCrossoverPoints

SpecAllCrossover == InitAllCrossover /\ [][NextAllCrossover]_vars

----------------------------------------------------------------------------
(* Claims about calculateAllCrossoverPoints (SpecAllCrossover) *)

\* C18: calculateAllCrossoverPoints(calc) returns worker =
\* calculateCrossoverPoint(calc.afterTaxIncome, calc.wealthAccount,
\* calc.estimatedSaving) and investor = calculateCrossoverPoint(
\* calc.afterTaxIncome, calc.wealthAccount, calc.targetSaving): the two runs
\* differ in the annual savings only.
C18_WorkerAndInvestorRuns ==
    pc = "done" =>
        /\ crossoverPoints.worker
              = calculateCrossoverPoint(calc.afterTaxIncome, calc.wealthAccount,
                                        calc.estimatedSaving)
        /\ crossoverPoints.investor
              = calculateCrossoverPoint(calc.afterTaxIncome, calc.wealthAccount,
                                        calc.targetSaving)
        /\ RecordOf(crossoverPoints.worker, 0) = RecordOf(crossoverPoints.investor, 0)

\* The two savings differ, and so do the two crossover years.
C18_Witness ==
    /\ pc = "done"
    /\ calc.estimatedSaving < calc.targetSaving
    /\ crossoverPoints.worker.years # Never
    /\ crossoverPoints.investor.years < crossoverPoints.worker.years

\* C25: for the record calculate gives for validated inputs, the investor's
\* crossover is never later than the worker's: if the worker's crossover year
\* is not the never sentinel, neither is the investor's, and investor.years <=
\* worker.years (the years saved, worker.years - investor.years, are not
\* negative).
C25_InvestorCrossesNoLater ==
    (pc = "done" /\ ValidContract(inputs) /\ crossoverPoints.worker.years # Never) =>
        /\ crossoverPoints.investor.years # Never
        /\ crossoverPoints.investor.years <= crossoverPoints.worker.years
        /\ crossoverPoints.worker.years - crossoverPoints.investor.years >= 0

\* Both cross, the investor at least five years before the worker.
C25_Witness ==
    /\ pc = "done"
    /\ ValidContract(inputs)
    /\ crossoverPoints.worker.years # Never
    /\ crossoverPoints.investor.years # Never
    /\ crossoverPoints.investor.years > 0
    /\ crossoverPoints.worker.years - crossoverPoints.investor.years >= 5

----------------------------------------------------------------------------
(* calculateAssetEnduranceMetrics applied to the records of calculate *)

\* Inputs of the validation contract: those of CrossoverInputs, and the same
\* with a state tax as large as the income.
MetricsInputs ==
    CrossoverInputs
    \cup { [in EXCEPT !.stateIncomeTax = in.preTaxIncome] : in \in CrossoverInputs }

InitMetrics ==
    /\ SessionIdle
    /\ pc = "metrics"
    /\ inputs \in MetricsInputs
    /\ calculations = calculate(inputs)
    /\ income = 0
    /\ filingStatus = ""
    /\ federalTax = NotCalled
    /\ form = NoInputs
    /\ errors = {}
    /\ EnginesIdle

CallCalculateAssetEnduranceMetrics ==
    /\ pc = "metrics"
    /\ enduranceMetrics' = calculateAssetEnduranceMetrics(calculations.value)
    /\ pc' = "done"
    /\ UNCHANGED <<calcVars, projectionVars, enduranceArgs, stack, endurance,
                   crossoverVars, sessionVars>>

NextMetrics == CallCalculateAssetEnduranceMetrics

SpecMetrics == InitMetrics /\ [][NextMetrics]_vars

\* investor >= worker for two endurances, the indefinite sentinel read as
\* infinity
LastsAtLeast(investor, worker) ==
    investor = Indefinite \/ (worker # Indefinite /\ investor >= worker)

\* C26: for the record calculate gives for validated inputs,
\* calculateAssetEnduranceMetrics returns investorWealth15Yr >=
\* workerWealth15Yr and, -1 read as infinity, investorCurrentEndurance >=
\* workerCurrentEndurance and investorFutureEndurance >=
\* workerFutureEndurance, the future endurances being those of the 15-year
\* wealths; the worker is never indefinite while the investor is finite.
C26_InvestorLastsNoShorter ==
    (pc = "done" /\ ValidContract(inputs)) =>
        /\ enduranceMetrics.investorWealth15Yr >= enduranceMetrics.workerWealth15Yr
        /\ LastsAtLeast(enduranceMetrics.investorCurrentEndurance,
                        enduranceMetrics.workerCurrentEndurance)
        /\ LastsAtLeast(enduranceMetrics.investorFutureEndurance,
                        enduranceMetrics.workerFutureEndurance)
        /\ enduranceMetrics.workerFutureEndurance
              = calculateAssetEndurance(calc.estimatedSpending,
                                        enduranceMetrics.workerWealth15Yr)
        /\ enduranceMetrics.investorFutureEndurance
              = calculateAssetEndurance(calc.targetSpending,
                                        enduranceMetrics.investorWealth15Yr)
        /\ ~(enduranceMetrics.workerCurrentEndurance = Indefinite
                /\ enduranceMetrics.investorCurrentEndurance # Indefinite)
        /\ ~(enduranceMetrics.workerFutureEndurance = Indefinite
                /\ enduranceMetrics.investorFutureEndurance # Indefinite)

\* The investor's current wealth lasts longer than the worker's, both
\* finitely; in 15 years the investor's lasts indefinitely, the worker's not.
C26_Witness ==
    /\ pc = "done"
    /\ ValidContract(inputs)
    /\ enduranceMetrics.investorWealth15Yr > enduranceMetrics.workerWealth15Yr
    /\ enduranceMetrics.workerCurrentEndurance # Indefinite
    /\ enduranceMetrics.investorCurrentEndurance # Indefinite
    /\ enduranceMetrics.investorCurrentEndurance > enduranceMetrics.workerCurrentEndurance
    /\ enduranceMetrics.workerFutureEndurance # Indefinite
    /\ enduranceMetrics.investorFutureEndurance = Indefinite

----------------------------------------------------------------------------
(* The session: submissions, slider inputs and window resizes *)

\* pre-tax incomes typed into the form, in steps of 50000 dollars
MaxSessionIncomes == 2

\* positions the slider is dragged to, in steps of slider.step
MaxSliderNotches == 2

\* Chart ids the library hands out before the session is cut off
MaxChartId == 10

\* The form as submitted: the wealth left blank (rejected) or 250000 dollars;
\* the state tax blank; the filing status selected.
SessionForms ==
    { Inputs(i * Dollars(50000), w, EmptyString, "single") :
        i \in 1..MaxSessionIncomes,
        w \in { EmptyString, Dollars(250000) } }

\* one width on either side of the breakpoint
Widths == { MOBILE_BREAKPOINT, MOBILE_BREAKPOINT + 1 }

Page ==
    [ appState |-> appState, slider |-> slider, chartInstances |-> chartInstances,
      lastChartId |-> lastChartId, shown |-> shown, formErrors |-> formErrors,
      innerWidth |-> innerWidth ]

\* the handler leaves the page as b
Leaves(b) ==
    /\ appState' = b.appState
    /\ slider' = b.slider
    /\ chartInstances' = b.chartInstances
    /\ lastChartId' = b.lastChartId
    /\ shown' = b.shown
    /\ formErrors' = b.formErrors

\* a handler that creates charts creates at most one per slot
CanCreateCharts == lastChartId + Cardinality(ChartSlots) <= MaxChartId

Init ==
    /\ pc = "page"
    /\ CalcIdle
    /\ EnginesIdle
    /\ PageLoaded
    /\ innerWidth \in Widths
    /\ pipeline = NotRun

\* the form is submitted
HandleCalculatorSubmit ==
    /\ CanCreateCharts
    /\ \E f \in SessionForms : \E b \in { handleCalculatorSubmit(Page, f) } : Leaves(b)
    /\ UNCHANGED <<pc, calcVars, engineVars, innerWidth, resizeTimeout, pipeline>>

\* The slider is dragged; the section that holds it is hidden until
\* showAllSections.
HandleSavingsSliderInput ==
    /\ shown
    /\ \E n \in 0..MaxSliderNotches :
         /\ n * slider.step <= slider.max
         /\ \E b \in { handleSavingsSliderInput(Page, n * slider.step) } : Leaves(b)
    /\ UNCHANGED <<pc, calcVars, engineVars, innerWidth, resizeTimeout, pipeline>>

\* handleWindowResize(), the window now being w wide: the pending timer is
\* cleared and a new one set.
HandleWindowResize ==
    /\ \E w \in Widths : innerWidth' = w
    /\ resizeTimeout' = TRUE
    /\ UNCHANGED <<pc, calcVars, engineVars, pageVars, pipeline>>

\* the timer of handleWindowResize fires
ResizeTimeout ==
    /\ resizeTimeout
    /\ CanCreateCharts
    /\ resizeTimeout' = FALSE
    /\ \E b \in { ResizeCallback(Page, innerWidth) } : Leaves(b)
    /\ UNCHANGED <<pc, calcVars, engineVars, innerWidth, pipeline>>

Next ==
    \/ HandleCalculatorSubmit
    \/ HandleSavingsSliderInput
    \/ HandleWindowResize
    \/ ResizeTimeout

Spec == Init /\ [][Next]_vars

----------------------------------------------------------------------------
(* Claims about the session *)

\* a submission has passed validation: only then are the inputs stored
submitted == appState.userInputs # NoInputs

\* C19: after every submission that passes validation, and in every state
\* reached from there by slider inputs, window resizes and rejected
\* submissions, appState.calculations is calculate(appState.userInputs),
\* projectionData.current and projectionData.target are the 15-year
\* projections of calculations.estimatedSaving and calculations.targetSaving
\* from calculations.wealthAccount, and crossoverData is
\* calculateAllCrossoverPoints(calculations): every field of them is the one
\* the stored inputs give, none is left from an earlier submission.
C19_DerivedFromStoredInputs ==
    submitted =>
        LET c == calculate(appState.userInputs)
            calcs == appState.calculations
        IN  /\ ~c.threw
            /\ calcs = c.value
            /\ appState.projectionData.current =
                   calculateProjection(calcs.estimatedSaving, 15, calcs.wealthAccount)
            /\ appState.projectionData.target =
                   calculateProjection(calcs.targetSaving, 15, calcs.wealthAccount)
            /\ appState.crossoverData = calculateAllCrossoverPoints(calcs)

\* 100000 dollars of income and 250000 of wealth are stored, the charts have
\* been created a second time, the slider has been dragged to its second
\* notch and a resize is waiting for its timer.
C19_Witness ==
    /\ appState.userInputs = Inputs(Dollars(100000), Dollars(250000), 0, "single")
    /\ lastChartId = 2 * Cardinality(ChartSlots)
    /\ slider.step = Dollars(1000)
    /\ appState.projectionData.adjustedSavings = Dollars(2000)
    /\ appState.projectionData.adjusted # appState.projectionData.current
    /\ resizeTimeout

\* the Chart instances alive on the canvas of a slot
Alive(key) == { c \in chartInstances : c.canvas = key }

\* C20: across submissions, slider inputs and window resizes no slot has more
\* than one chart created and not destroyed: a chart is created for a slot
\* only after the one created before it for that slot was destroyed.  (A
\* handler destroys before it creates, so the charts alive when it creates
\* are alive when it ends.)
C20_OneChartPerSlot ==
    \A key \in ChartSlots : Cardinality(Alive(key)) <= 1

\* Every slot holds a chart created after the first five: each of the first
\* five was replaced, and is no longer alive.
C20_Witness ==
    /\ \A key \in ChartSlots :
          /\ appState.charts[key] > Cardinality(ChartSlots)
          /\ { c.id : c \in Alive(key) } = { appState.charts[key] }
    /\ \A c \in chartInstances : c.id > Cardinality(ChartSlots)

\* a step of handleCalculatorSubmit whose form fails validation
RejectedSubmit ==
    \E f \in SessionForms :
        /\ ~displayErrors(validateCalculatorForm(FormInputs(f)))
        /\ Leaves(handleCalculatorSubmit(Page, f))

BuiltForWidth == \A c \in chartInstances : c.mobile = (innerWidth <= MOBILE_BREAKPOINT)

\* C22: the function the resize handler's timer runs recreates the charts
\* only when the screen-size category (mobile: width <= 768, or desktop) has
\* changed: when the charts alive were built for the category the window is
\* in, it creates no chart.
C22_RecreatesOnlyOnCategoryChange ==
    [][(resizeTimeout /\ ~resizeTimeout' /\ BuiltForWidth)
          => (lastChartId' = lastChartId /\ chartInstances' = chartInstances)]_vars

----------------------------------------------------------------------------
(* 2. ApplicationState.reset *)

\* appState.reset() on the page b: the chart of every slot is destroyed, the
\* slots keep them; the four data objects are set as the constructor sets
\* them.
reset(b) ==
    [b EXCEPT
      !.chartInstances = { c \in @ : c.id # b.appState.charts[c.canvas] },
      !.appState = [InitialAppState EXCEPT !.charts = b.appState.charts]]

\* appState.reset() is called
Reset ==
    /\ \E b \in { reset(Page) } : Leaves(b)
    /\ UNCHANGED <<pc, calcVars, engineVars, innerWidth, resizeTimeout, pipeline>>

\* the session with appState.reset() called at any time
NextReset == Next \/ Reset

SpecReset == Init /\ [][NextReset]_vars

\* C23: after reset(), from any reachable state, userInputs, calculations,
\* projectionData, crossoverData and every chart slot are what the
\* constructor sets (the slots all null): no slot still references a
\* destroyed chart.
C23_ResetRestoresInitialState ==
    [][Reset => appState' = InitialAppState]_vars

----------------------------------------------------------------------------
(* The engine pipeline called twice, the session running in between *)

\* the inputs objects the pipeline is called with
PipelineInputs ==
    { Inputs(Dollars(80000), Dollars(100000), Dollars(2000), "marriedJointly"),
      Inputs(Dollars(30000), EmptyString, 0, "single") }

\* The pipeline is called: the first time with any of the inputs, the second
\* time with the same.
CallPipeline ==
    /\ pipeline.calls < 2
    /\ \E in \in IF pipeline.calls = 0 THEN PipelineInputs ELSE { pipeline.inputs } :
         \E out \in { EnginePipeline(in) } :
           pipeline' = [ calls   |-> pipeline.calls + 1,
                         inputs  |-> in,
                         outputs |-> Append(pipeline.outputs, out) ]
    /\ UNCHANGED <<pc, calcVars, engineVars, pageVars, innerWidth, resizeTimeout>>

InitPipeline ==
    /\ pc = "page"
    /\ CalcIdle
    /\ EnginesIdle
    /\ SessionIdle

\* The first call is made on the loaded page and the second in any state the
\* session reaches after it: the outputs of any two states are equal if each
\* equals the output of the loaded page.
NextPipeline ==
    \/ CallPipeline
    \/ pipeline.calls = 1 /\ HandleCalculatorSubmit
    \/ pipeline.calls = 1 /\ HandleSavingsSliderInput
    \/ pipeline.calls = 1 /\ Reset

SpecPipeline == InitPipeline /\ [][NextPipeline]_vars

----------------------------------------------------------------------------
(* More claims about FinancialCalculator.calculate (SpecCalc) *)

\* the worker baseline as targets
Baseline(l) == Targets(l.estimatedSpending, l.estimatedSaving)

\* the targets after the first correction
Floored(l) == SavingFloor(l.first, l.afterTaxIncome, l.estimatedSaving)

FloorChanges(l) == Floored(l) # l.first

CeilingChanges(l) ==
    SpendingCeiling(Floored(l), l.afterTaxIncome, l.estimatedSpending) # Floored(l)

\* 0.5 * afterTaxIncome + 0.05 * wealthAccount > afterTaxIncome - 0.10 * preTaxIncome
SpendsMoreThanWorker(in, l) ==
    Mul(l.afterTaxIncome, 50) + Mul(l.wealthAccount, 5)
        > l.afterTaxIncome - Mul(in.preTaxIncome, 10)

\* C24: in calculate with preTaxIncome >= 0 at most one of the two
\* corrections changes the targets; whenever one does, the unrounded targets
\* are the worker baseline (targetSaving = estimatedSaving, targetSpending =
\* estimatedSpending); the targets are the baseline when 0.5 * afterTaxIncome
\* + 0.05 * wealthAccount > afterTaxIncome - 0.10 * preTaxIncome and the
\* first-pass targets otherwise.
C24_OneCorrectionCollapses ==
    (returned /\ inputs.preTaxIncome >= 0) =>
        /\ ~(FloorChanges(locals) /\ CeilingChanges(locals))
        /\ (FloorChanges(locals) \/ CeilingChanges(locals))
              => locals.targets = Baseline(locals)
        /\ locals.targets = IF SpendsMoreThanWorker(inputs, locals)
                            THEN Baseline(locals) ELSE locals.first

\* 100000 dollars of income and 1000000 of wealth: the first pass would save
\* nothing, the saving floor alone changes the targets, to the baseline.
C24_Witness ==
    /\ returned
    /\ inputs = Inputs(Dollars(100000), Dollars(1000000), Dollars(3000), "single")
    /\ locals.first.targetSaving = 0
    /\ FloorChanges(locals)
    /\ ~CeilingChanges(locals)
    /\ locals.targets = Baseline(locals)
    /\ locals.targets.targetSaving = Dollars(10000)

\* whole numbers of currency units: 0, 1, 2, ...
IsWholeNumber(x) == x >= 0 /\ IsWhole(x)

WholeInputs(in) ==
    /\ IsWholeNumber(in.preTaxIncome)
    /\ in.wealthAccount = EmptyString \/ IsWholeNumber(in.wealthAccount)
    /\ IsWholeNumber(in.stateIncomeTax)

Distance(a, b) == IF a >= b THEN a - b ELSE b - a

\* C28: for whole-number inputs, the rounded figures calculate returns stay
\* consistent with afterTaxIncome on both paths: targetSpending +
\* targetSaving and estimatedSpending + estimatedSaving each differ from
\* afterTaxIncome by at most 1 currency unit.
C28_RoundedFiguresSumToAfterTaxIncome ==
    (returned /\ WholeInputs(inputs)) =>
        /\ Distance(calc.targetSpending + calc.targetSaving, calc.afterTaxIncome)
              <= Dollars(1)
        /\ Distance(calc.estimatedSpending + calc.estimatedSaving, calc.afterTaxIncome)
              <= Dollars(1)

\* Both targets end in .50 and are rounded up: their sum is afterTaxIncome
\* + 1.  No correction has fired.
C28_Witness ==
    /\ returned
    /\ WholeInputs(inputs)
    /\ ValidContract(inputs)
    /\ locals.targets = locals.first
    /\ calc.targetSpending + calc.targetSaving = calc.afterTaxIncome + Dollars(1)
    /\ Distance(calc.estimatedSpending + calc.estimatedSaving, calc.afterTaxIncome)
          <= Dollars(1)

----------------------------------------------------------------------------
(* More claims about calculateCrossoverPoint (SpecCrossover) *)

\* C29: calculateCrossoverPoint always returns exactly 51 records
\* (CROSSOVER_YEARS + 1), for the years 0, 1, ..., 50 in ascending order,
\* whether or not and whenever a crossover occurs, and its crossover year is
\* -1 or an integer in 0..50.
C29_OneRecordPerYear ==
    pc = "done" =>
        /\ Len(crossover.projectionData) = CROSSOVER_YEARS + 1
        /\ \A k \in 1..Len(crossover.projectionData) :
              crossover.projectionData[k].year = k - 1
        /\ crossover.years \in { Never } \cup 0..CROSSOVER_YEARS

\* The crossover came in the middle of the run, and the records go on to
\* the last year.
C29_Witness ==
    /\ pc = "done"
    /\ crossover.years \in 1..(CROSSOVER_YEARS - 1)
    /\ Len(crossover.projectionData) = CROSSOVER_YEARS + 1
    /\ crossover.projectionData[CROSSOVER_YEARS + 1].year = CROSSOVER_YEARS
    /\ crossover.projectionData[crossover.years + 1].year = crossover.years

----------------------------------------------------------------------------
(* More claims about calculateAssetEndurance (SpecEndurance) *)

\* C30: calculateAssetEndurance called with the default yearsElapsed = 0
\* never returns 0: its result is -1 or an integer >= 1, and 1 with
\* assetBase = 0 and annualSpending > 0; formatEndurance never shows N/A
\* for it.
C30_NeverZeroYears ==
    pc = "done" =>
        /\ endurance = Indefinite \/ endurance >= 1
        /\ (enduranceArgs.assetBase = 0 /\ enduranceArgs.annualSpending > 0)
              => endurance = 1
        /\ formatEndurance(endurance) # "N/A"

\* Nothing to spend from: the assets are depleted in the first year.
C30_Witness ==
    /\ pc = "done"
    /\ enduranceArgs.assetBase = 0
    /\ enduranceArgs.annualSpending > 0
    /\ endurance = 1
    /\ formatEndurance(endurance) = "years"

====
